---- MODULE Spec2Model ----
(***************************************************************************)
(* setup-mac: the install orchestrator (internal/cli/install.go), the      *)
(* single-installer runner (installer.RunInstaller), the Execution Gateway *)
(* (executor.Executor) and the seven installers, as one state machine.     *)
(*                                                                         *)
(* The main goroutine of runInstall is modelled by pc/step, the signal     *)
(* goroutine by sig, the cancellable context by ctxDone, one external      *)
(* process at a time by exec, and the machine (files, PATH) by fs.         *)
(***************************************************************************)
EXTENDS Integers, Sequences, FiniteSets, TLC

VARIABLES
    flags,            \* the install command flags (install.go:17-26)
    cfgFile,          \* --config: "" (defaults), "present" or "missing"
    cfgDoc,           \* the document of the custom file, by leaf key
    cfg,              \* the loaded configuration (NoCfg before Load)
    ictx,             \* installer.Context: DryRun, Executor.DryRun, Prompt.Interactive
    pc,               \* position of runInstall's goroutine
    installersToRun,  \* result of determineInstallers
    idx,              \* 1-based position of the for-range loop
    errors,           \* runInstall's errors slice (installer names)
    status,           \* per installer: Pending, Running, Skipped, Succeeded, Failed
    ret,              \* what Install returned to RunInstaller: "none", "nil", "err"
    outcome,          \* what runInstall returned
    sig,              \* signal goroutine: off, armed, raised, handled
    ctxDone,          \* ctx.Done() is closed
    step,             \* position inside the running Install
    exec,             \* the Executor call in flight
    fs,               \* the machine: files, directories, PATH
    spawned,          \* external processes started in this run
    fsLog,            \* paths created or written in this run
    prompts,          \* interactive prompts issued in this run
    previews,         \* dry-run preview notifications issued in this run
    isInstalledCalls, \* RunInstaller's IsInstalled calls per installer
    installCalls,     \* RunInstaller's Install calls per installer
    procKilled,       \* an external process was killed by the context
    cancelledIn,      \* where runInstall was when cancel() was called
    failures,         \* external commands that exited non-zero in this run
    failedCmds,       \* the commands whose call returned an error in this run
    prevStatus,       \* the statuses the previous invocation ended with
    runNo,            \* which invocation of the tool this is
    updaters,         \* result of determineUpdaters
    updates,          \* per updater: how often Update was called, what it returned
    result,           \* what the last direct call of the gateway returned
    answers,          \* what each component's IsInstalled answered
    timers,           \* waitForInstallation's ticker and timeout timer
    zshrcText,        \* the content of ~/.zshrc, line by line
    applied           \* the last call of a pure helper: its input and its output

vars == <<flags, cfgFile, cfgDoc, cfg, ictx, pc, installersToRun, idx, errors,
          status, ret, outcome, sig, ctxDone, step, exec, fs, spawned, fsLog,
          prompts, previews, isInstalledCalls, installCalls, procKilled,
          cancelledIn, failures, failedCmds, prevStatus, runNo, updaters,
          updates, result, answers, timers, zshrcText, applied>>

-----------------------------------------------------------------------------
(* Bounds of the model *)

\* longest list (taps, formulae, casks, plugins, aliases, ...) of a configuration
MaxList == 1

\* how many 5-second periods of the ticker make up the 30 minutes of the timeout
MaxTicks == 2

\* longest argument list handed to formatCommand
MaxArgs == 2

\* the components of a version string
MaxParts == 2

\* how many times the tool is invoked in a row (SpecTwice)
MaxRuns == 2

\* how many external commands may exit non-zero in one invocation
MaxFailures == 1

-----------------------------------------------------------------------------
(* Names *)

Names == <<"homebrew", "oh-my-zsh", "powerlevel10k", "shell", "macos", "git", "ssh">>

NameSet == {Names[i] : i \in 1..Len(Names)}

Terminal == {"Skipped", "Succeeded", "Failed"}

NoCfg == [loaded |-> FALSE]

IdleExec == [st |-> "idle", cmd |-> "none"]

Range(s) == {s[i] : i \in 1..Len(s)}

\* position of a name in the canonical order
Pos(n) == CHOOSE i \in 1..Len(Names) : Names[i] = n

\* the components runStatus lists, in its order
Components == <<"xcode", "rosetta">> \o Names

ComponentSet == {Components[i] : i \in 1..Len(Components)}

NoAnswers == [n \in ComponentSet |-> "unchecked"]

\* the updaters of determineUpdaters, in its order
Updaters == <<"homebrew", "ohmyzsh">>

UpdaterSet == {Updaters[i] : i \in 1..Len(Updaters)}

NoUpdates == [u \in UpdaterSet |-> [calls |-> 0, ret |-> "none"]]

\* the ticker and the timer before waitForInstallation creates them
NoTimers == [tick |-> FALSE, timeout |-> FALSE, elapsed |-> 0]

\* no pure helper called yet
NoCall == [fn |-> "none", in |-> <<>>, out |-> <<>>]

-----------------------------------------------------------------------------
(* internal/cli/install.go: determineInstallers *)

\* determineInstallers without the return that ends the --all branch
determineInstallers_DropAllReturn(f) ==
    (IF f.all THEN Names ELSE <<>>)
    \o (IF f.homebrew THEN <<"homebrew">> ELSE <<>>)
    \o (IF f.terminal THEN <<"oh-my-zsh", "powerlevel10k">> ELSE <<>>)
    \o (IF f.shell THEN <<"shell">> ELSE <<>>)
    \o (IF f.macos THEN <<"macos">> ELSE <<>>)
    \o (IF f.git THEN <<"git">> ELSE <<>>)
    \o (IF f.ssh THEN <<"ssh">> ELSE <<>>)

\* lines 155-196
determineInstallers(f) ==
    IF f.all
    THEN <<"homebrew", "oh-my-zsh", "powerlevel10k", "shell", "macos", "git", "ssh">>
    ELSE (IF f.homebrew THEN <<"homebrew">> ELSE <<>>)
         \o (IF f.terminal THEN <<"oh-my-zsh", "powerlevel10k">> ELSE <<>>)
         \o (IF f.shell THEN <<"shell">> ELSE <<>>)
         \o (IF f.macos THEN <<"macos">> ELSE <<>>)
         \o (IF f.git THEN <<"git">> ELSE <<>>)
         \o (IF f.ssh THEN <<"ssh">> ELSE <<>>)

AllFlags ==
    [all : BOOLEAN, homebrew : BOOLEAN, terminal : BOOLEAN, shell : BOOLEAN,
     macos : BOOLEAN, git : BOOLEAN, ssh : BOOLEAN, dryRun : BOOLEAN]

-----------------------------------------------------------------------------
(* internal/executor: Executor.Run, Executor.RunInteractive, Executor.Exists *)

NoResult == [err |-> FALSE, ExitCode |-> 0, DryRun |-> FALSE, how |-> "none"]

\* a gateway built on exec.Command, which knows nothing of the context
ExecutorStart_IgnoreCtx(cmd) ==
    IF ictx.Executor.DryRun THEN [st |-> "dry", cmd |-> cmd]
    ELSE [st |-> "running", cmd |-> cmd]

\* How a call enters the gateway: the dry-run short-circuit, exec.Cmd.Start
\* refusing a context that is already done, or a spawned process.
ExecutorStart(cmd) ==
    IF ictx.Executor.DryRun THEN [st |-> "dry", cmd |-> cmd]
    ELSE IF ctxDone THEN [st |-> "refused", cmd |-> cmd]
    ELSE [st |-> "running", cmd |-> cmd]

\* What the call in flight can return.  A running process exits with status 0
\* or non-zero, or is killed by exec.CommandContext once ctx is done.
ExecutorResults ==
    CASE exec.st = "dry" ->
           {[err |-> FALSE, ExitCode |-> 0, DryRun |-> TRUE, how |-> "dry"]}
      [] exec.st = "refused" ->
           {[err |-> TRUE, ExitCode |-> -1, DryRun |-> FALSE, how |-> "refused"]}
      [] exec.st = "running" ->
           {[err |-> FALSE, ExitCode |-> 0, DryRun |-> FALSE, how |-> "exit"]}
           \cup (IF failures < MaxFailures
                 THEN {[err |-> TRUE, ExitCode |-> 1, DryRun |-> FALSE, how |-> "exit"]}
                 ELSE {})
           \cup (IF ctxDone
                 THEN {[err |-> TRUE, ExitCode |-> -1, DryRun |-> FALSE, how |-> "killed"]}
                 ELSE {})
      [] OTHER -> {NoResult}

\* exec.LookPath("brew"): the binary exists and its directory is on the PATH
\* of this process (the shell's PATH, or the os.Setenv of installHomebrew).
Exists(m, name) ==
    CASE name = "brew" -> m.brewBin /\ (m.shellPathBrew \/ m.sessionPath)
      [] name = "git" -> m.gitOnPath
      [] OTHER -> FALSE

\* What the operating system does with a command: whether the executable can
\* be started, the status it exits with, what it writes to its two streams.
Proc(starts, exit, out, errOut) ==
    [starts |-> starts, exit |-> exit, Stdout |-> out, Stderr |-> errOut]

\* the commands the gateway is called with directly (executor_test.go) and by
\* the install-state checks of the Xcode and Rosetta installers
Commands ==
    {"echo hello", "sh -c exit 1", "nonexistent-command-12345",
     "xcode-select -p", "arch -x86_64 true"}

CommandLineTools == "/Library/Developer/CommandLineTools"

Process(cmd, m) ==
    CASE cmd = "echo hello" -> Proc(TRUE, 0, "hello\n", "")
      [] cmd = "sh -c exit 1" -> Proc(TRUE, 1, "", "")
      [] cmd = "xcode-select -p" ->
           IF ~m.xcodeSelect THEN Proc(FALSE, 0, "", "")
           ELSE CASE m.clt = "none" ->
                       Proc(TRUE, 2, "", "xcode-select: error: unable to get active developer directory")
                  [] m.clt = "empty" -> Proc(TRUE, 0, "\n", "")
                  [] OTHER -> Proc(TRUE, 0, "/Library/Developer/CommandLineTools\n", "")
      [] cmd = "arch -x86_64 true" ->
           IF m.x86runs THEN Proc(TRUE, 0, "", "")
           ELSE Proc(TRUE, 1, "", "arch: posix_spawnp: true: Bad CPU type in executable")
      [] OTHER -> Proc(FALSE, 0, "", "")

\* what a call of the gateway gives back: the *Result (nil for RunInteractive
\* and Exists), the error, and what the call did on the way
Returned(res, isNil, err, spawns, preview) ==
    [res |-> res, nil |-> isNil, err |-> err, spawns |-> spawns, preview |-> preview]

Result(code, out, errOut, dry) ==
    [ExitCode |-> code, Stdout |-> out, Stderr |-> errOut, DryRun |-> dry]

\* a Run without the dry-run branch of lines 48-56
Executor_Run_NoShortCircuit(e, done, p) ==
    IF done \/ ~p.starts
    THEN Returned(Result(-1, "", "", FALSE), FALSE, TRUE, FALSE, FALSE)
    ELSE Returned(Result(p.exit, p.Stdout, p.Stderr, FALSE), FALSE, p.exit # 0, TRUE, FALSE)

\* a Run that reports only the failure to start as an error
Executor_Run_ExitStatusIgnored(e, done, p) ==
    IF e.DryRun
    THEN Returned(Result(0, "", "", TRUE), FALSE, FALSE, FALSE, TRUE)
    ELSE IF done \/ ~p.starts
         THEN Returned(Result(-1, "", "", FALSE), FALSE, TRUE, FALSE, FALSE)
         ELSE Returned(Result(0, p.Stdout, p.Stderr, FALSE), FALSE, FALSE, TRUE, FALSE)

\* Executor.Run, lines 45-90, for a command whose process behaves as p under a
\* context that is done or not: the dry-run short-circuit; cmd.Run failing
\* without an *exec.ExitError (ExitCode -1) when the process cannot be started;
\* the exit status of the process otherwise.
Executor_Run(e, done, p) ==
    IF e.DryRun
    THEN Returned(Result(0, "", "", TRUE), FALSE, FALSE, FALSE, TRUE)
    ELSE IF done \/ ~p.starts
         THEN Returned(Result(-1, "", "", FALSE), FALSE, TRUE, FALSE, FALSE)
         ELSE Returned(Result(p.exit, p.Stdout, p.Stderr, FALSE), FALSE, p.exit # 0, TRUE, FALSE)

\* Executor.RunInteractive, lines 98-122: no Result, the error of cmd.Run
Executor_RunInteractive(e, done, p) ==
    IF e.DryRun
    THEN Returned(Result(0, "", "", FALSE), TRUE, FALSE, FALSE, TRUE)
    ELSE IF done \/ ~p.starts
         THEN Returned(Result(0, "", "", FALSE), TRUE, TRUE, FALSE, FALSE)
         ELSE Returned(Result(0, "", "", FALSE), TRUE, p.exit # 0, TRUE, FALSE)

\* the record of one direct call
Called(kind, cmd, p, r, found) ==
    [kind |-> kind, cmd |-> cmd, proc |-> p, ret |-> r, found |-> found]

NoReturn ==
    Called("none", "none", Proc(FALSE, 0, "", ""),
           Returned(Result(0, "", "", FALSE), TRUE, FALSE, FALSE, FALSE), FALSE)

\* Strings are sequences of characters.  The arguments formatCommand is tried
\* on: plain, empty, with a space, a tab, a newline, a single quote, a double
\* quote, and with a space and a double quote.
Words ==
    {<<"a">>, << >>, <<"a", " ", "b">>, <<"a", "\t", "b">>, <<"a", "\n", "b">>,
     <<"i", "t", "'", "s">>, <<"\"", "a", "\"">>, <<" ", "\"">>}

Contains(str, ch) == \E i \in 1..Len(str) : str[i] = ch

\* fmt.Sprintf("%q", arg): a double-quoted Go string literal with escapes
RECURSIVE Escaped(_)
Escaped(str) ==
    IF str = << >> THEN << >>
    ELSE (CASE Head(str) = "\"" -> <<"\\", "\"">>
            [] Head(str) = "\t" -> <<"\\", "t">>
            [] Head(str) = "\n" -> <<"\\", "n">>
            [] OTHER -> <<Head(str)>>) \o Escaped(Tail(str))

Quoted(str) == <<"\"">> \o Escaped(str) \o <<"\"">>

\* strings.Join(elems, " ")
RECURSIVE Join(_)
Join(elems) ==
    IF Len(elems) = 0 THEN << >>
    ELSE IF Len(elems) = 1 THEN elems[1]
    ELSE elems[1] \o <<" ">> \o Join(Tail(elems))

\* formatCommand, lines 129-145
formatCommand(name, args) ==
    IF Len(args) = 0 THEN name
    ELSE LET quotedArgs == [i \in 1..Len(args) |->
                               IF Contains(args[i], " ") \/ Contains(args[i], "\"")
                               THEN Quoted(args[i])
                               ELSE args[i]]
         IN  name \o <<" ">> \o Join(quotedArgs)

-----------------------------------------------------------------------------
(* Continuations of an Install body: call the gateway again, or return *)

Call(cmd, s) == [op |-> "call", cmd |-> cmd, step |-> s]

Return(e) == [op |-> "return", ret |-> e]

\* One segment of an Install body: the state it leaves and how it goes on.
Out(m, log, prm, prv, k) == [fs |-> m, log |-> log, prompts |-> prm, previews |-> prv, k |-> k]

\* A segment that touches nothing but the control flow.
Go(k) == Out(fs, fsLog, prompts, previews, k)

AtStep(name) == [at |-> name, i |-> 0, seen |-> {}]

AtItem(name, i, seen) == [at |-> name, i |-> i, seen |-> seen]

-----------------------------------------------------------------------------
(* internal/installer/homebrew.go *)

HomebrewInstaller_IsInstalled(m) == Exists(m, "brew")

\* formula[:strings.Index(formula, "@")]
BaseName(pkg) ==
    CASE pkg = "node@18" -> "node"
      [] OTHER -> pkg

isFormulaInstalled(formula, installed) ==
    \/ formula \in installed
    \/ \E pkg \in installed : BaseName(pkg) = BaseName(formula)

\* strings.ReplaceAll(cask, "-", " ") looked up in /Applications, lower-cased
isCaskAppInstalled(cask, installedApps) == cask \in installedApps

\* installCasks, from cask i on: the first cask neither listed by brew nor found
\* in /Applications is installed through the gateway.
RECURSIVE HomebrewInstaller_installCasks(_, _, _, _)
HomebrewInstaller_installCasks(i, installed, m, prv) ==
    IF i > Len(cfg.Homebrew.Casks)
    THEN Out(m, fsLog, prompts, prv, Return("nil"))
    ELSE IF cfg.Homebrew.Casks[i] \in installed
              \/ isCaskAppInstalled(cfg.Homebrew.Casks[i], m.apps)
         THEN HomebrewInstaller_installCasks(i + 1, installed, m, prv)
         ELSE Out(m, fsLog, prompts, prv,
                  Call("brew install --cask", AtItem("installCask", i, installed)))

\* Install, lines 81-89: getInstalledCasks is skipped in dry-run.
HomebrewInstaller_casks(m, prv) ==
    IF Len(cfg.Homebrew.Casks) = 0
    THEN Out(m, fsLog, prompts, prv, Return("nil"))
    ELSE IF ictx.DryRun
         THEN HomebrewInstaller_installCasks(1, {}, m, prv)
         ELSE Out(m, fsLog, prompts, prv, Call("brew list --cask", AtStep("listCasks")))

RECURSIVE HomebrewInstaller_installFormulae(_, _, _, _)
HomebrewInstaller_installFormulae(i, installed, m, prv) ==
    IF i > Len(cfg.Homebrew.Formulae)
    THEN HomebrewInstaller_casks(m, prv)
    ELSE IF isFormulaInstalled(cfg.Homebrew.Formulae[i], installed)
         THEN HomebrewInstaller_installFormulae(i + 1, installed, m, prv)
         ELSE Out(m, fsLog, prompts, prv,
                  Call("brew install", AtItem("installFormula", i, installed)))

HomebrewInstaller_formulae(m, prv) ==
    IF Len(cfg.Homebrew.Formulae) = 0
    THEN HomebrewInstaller_casks(m, prv)
    ELSE IF ictx.DryRun
         THEN HomebrewInstaller_installFormulae(1, {}, m, prv)
         ELSE Out(m, fsLog, prompts, prv, Call("brew list --formula", AtStep("listFormulae")))

HomebrewInstaller_taps(i, m, prv) ==
    IF i > Len(cfg.Homebrew.Taps)
    THEN HomebrewInstaller_formulae(m, prv)
    ELSE Out(m, fsLog, prompts, prv, Call("brew tap", AtItem("addTap", i, {})))

\* an Install that gives up at the first tap, formula or cask that fails
HomebrewInstaller_fails_AnyItem(at, r) ==
    r.err /\ at \in {"installHomebrew", "addTap", "installFormula", "installCask"}

\* Install, lines 56-61, 67-69, 149-158 and 220-229: the errors Install
\* returns.  Only the error of installHomebrew is; the error of addTap is a
\* warning, and installFormulae and installCasks `continue` after a failed
\* item and return nil.
HomebrewInstaller_fails(at, r) == r.err /\ at = "installHomebrew"

\* HomebrewInstaller.Install, one segment: from `s` with the gateway's result r.
HomebrewInstaller_Install(s, r) ==
    CASE s.at = "begin" ->
           IF ~cfg.Homebrew.Install THEN Go(Return("nil"))
           ELSE IF ~HomebrewInstaller_IsInstalled(fs)
                THEN IF ictx.DryRun
                     THEN HomebrewInstaller_taps(1, fs, previews \cup {"homebrew install.sh"})
                     ELSE Go(Call("homebrew install.sh", AtStep("installHomebrew")))
                ELSE HomebrewInstaller_taps(1, fs, previews)
      [] HomebrewInstaller_fails(s.at, r) -> Go(Return("err"))
      [] s.at = "installHomebrew" ->
           IF r.err THEN Go(Return("err"))
           ELSE HomebrewInstaller_taps(1,
                    IF r.DryRun THEN fs
                    ELSE [fs EXCEPT !.brewBin = TRUE, !.sessionPath = TRUE],
                    previews)
      [] s.at = "addTap" ->
           HomebrewInstaller_taps(s.i + 1,
               IF r.err \/ r.DryRun THEN fs
               ELSE [fs EXCEPT !.taps = @ \cup {cfg.Homebrew.Taps[s.i]}],
               previews)
      [] s.at = "listFormulae" ->
           HomebrewInstaller_installFormulae(1, IF r.err THEN {} ELSE fs.formulae, fs, previews)
      [] s.at = "installFormula" ->
           IF r.err
           THEN Go(Call("brew list --formula", AtItem("relistFormulae", s.i, s.seen)))
           ELSE HomebrewInstaller_installFormulae(s.i + 1, s.seen,
                    IF r.DryRun THEN fs
                    ELSE [fs EXCEPT !.formulae = @ \cup {cfg.Homebrew.Formulae[s.i]}],
                    previews)
      [] s.at = "relistFormulae" ->
           HomebrewInstaller_installFormulae(s.i + 1, s.seen, fs, previews)
      [] s.at = "listCasks" ->
           HomebrewInstaller_installCasks(1, IF r.err THEN {} ELSE fs.casks, fs, previews)
      [] s.at = "installCask" ->
           HomebrewInstaller_installCasks(s.i + 1, s.seen,
               IF r.err \/ r.DryRun THEN fs
               ELSE [fs EXCEPT !.casks = @ \cup {cfg.Homebrew.Casks[s.i]}],
               previews)

-----------------------------------------------------------------------------
(* internal/installer/ohmyzsh.go *)

OhMyZshInstaller_IsInstalled(m) == m.omzDir

\* plugins cloned from their own repository (externalPlugins)
ExternalPlugins == {"zsh-autosuggestions", "zsh-syntax-highlighting"}

\* configurePlugins: preview in dry-run; otherwise read ~/.zshrc (an error when
\* it is missing), replace or insert the plugins line, write the file back.
OhMyZshInstaller_configurePlugins(m, prv) ==
    IF ictx.DryRun
    THEN Out(m, fsLog, prompts, prv \cup {"configure plugins in .zshrc"}, Return("nil"))
    ELSE IF ~m.zshrc
         THEN Out(m, fsLog, prompts, prv, Return("err"))
         ELSE Out(m, fsLog \cup {".zshrc"}, prompts, prv, Return("nil"))

RECURSIVE OhMyZshInstaller_installPlugins(_, _, _)
OhMyZshInstaller_installPlugins(i, m, prv) ==
    IF i > Len(cfg.Terminal.OhMyZsh.Plugins)
    THEN OhMyZshInstaller_configurePlugins(m, prv)
    ELSE IF cfg.Terminal.OhMyZsh.Plugins[i] \notin ExternalPlugins
              \/ cfg.Terminal.OhMyZsh.Plugins[i] \in m.plugins
         THEN OhMyZshInstaller_installPlugins(i + 1, m, prv)
         ELSE Out(m, fsLog, prompts, prv, Call("git clone plugin", AtItem("clonePlugin", i, {})))

\* OhMyZshInstaller.Install, one segment.  The install script, when it succeeds,
\* leaves ~/.oh-my-zsh and a ~/.zshrc made from its template.
OhMyZshInstaller_Install(s, r) ==
    CASE s.at = "begin" ->
           IF ~cfg.Terminal.OhMyZsh.Install THEN Go(Return("nil"))
           ELSE IF ~OhMyZshInstaller_IsInstalled(fs)
                THEN IF ictx.DryRun
                     THEN OhMyZshInstaller_installPlugins(1, fs, previews \cup {"ohmyzsh install.sh"})
                     ELSE Go(Call("ohmyzsh install.sh", AtStep("installOhMyZsh")))
                ELSE OhMyZshInstaller_installPlugins(1, fs, previews)
      [] s.at = "installOhMyZsh" ->
           IF r.err THEN Go(Return("err"))
           ELSE OhMyZshInstaller_installPlugins(1,
                    IF r.DryRun THEN fs ELSE [fs EXCEPT !.omzDir = TRUE, !.zshrc = TRUE],
                    previews)
      [] s.at = "clonePlugin" ->
           OhMyZshInstaller_installPlugins(s.i + 1,
               IF r.err \/ r.DryRun THEN fs
               ELSE [fs EXCEPT !.omzDir = TRUE,
                               !.plugins = @ \cup {cfg.Terminal.OhMyZsh.Plugins[s.i]}],
               previews)

-----------------------------------------------------------------------------
(* internal/installer/powerlevel10k.go *)

Powerlevel10kInstaller_IsInstalled(m) == m.p10kDir

\* Install, lines 92-108: the style prompt, asked whenever the style is empty
\* and the run is interactive; its answer only changes what is printed.
Powerlevel10kInstaller_style(m, log, prv) ==
    IF cfg.Terminal.Powerlevel10k.Style = "" /\ cfg.Settings.Interactive
    THEN Out(m, log,
             IF ictx.Prompt.Interactive THEN prompts \cup {"Select Powerlevel10k style"}
             ELSE prompts,
             prv, Return("nil"))
    ELSE Out(m, log, prompts, prv, Return("nil"))

Powerlevel10kInstaller_configureTheme(m, log, prv) ==
    IF ictx.DryRun
    THEN Powerlevel10kInstaller_style(m, log, prv \cup {"set ZSH_THEME in .zshrc"})
    ELSE IF ~m.zshrc
         THEN Out(m, log, prompts, prv, Return("err"))
         ELSE Powerlevel10kInstaller_style(m, log \cup {".zshrc"}, prv)

\* installPowerlevel10k, lines 111-118: os.MkdirAll creates the themes directory
\* and its parents when they are missing.
Powerlevel10kInstaller_mkdirThemes(m) == [m EXCEPT !.omzDir = TRUE, !.themesDir = TRUE]

Powerlevel10kInstaller_Install(s, r) ==
    CASE s.at = "begin" ->
           IF ~cfg.Terminal.Powerlevel10k.Install THEN Go(Return("nil"))
           ELSE IF ~Powerlevel10kInstaller_IsInstalled(fs)
                THEN Out(Powerlevel10kInstaller_mkdirThemes(fs),
                         IF fs.themesDir THEN fsLog ELSE fsLog \cup {".oh-my-zsh/custom/themes"},
                         prompts, previews,
                         Call("git clone powerlevel10k", AtStep("clone")))
                ELSE Powerlevel10kInstaller_configureTheme(fs, fsLog, previews)
      [] s.at = "clone" ->
           IF r.err THEN Go(Return("err"))
           ELSE Powerlevel10kInstaller_configureTheme(
                    IF r.DryRun THEN fs ELSE [fs EXCEPT !.p10kDir = TRUE],
                    fsLog, previews)

-----------------------------------------------------------------------------
(* internal/installer/shell.go *)

\* a check that takes an existing ~/.zshrc for a configured shell
ShellInstaller_IsInstalled_ByFile(m) == m.zshrc

ShellInstaller_IsInstalled(m) == FALSE

\* updateZshrcBlock: a missing file is created with the block, an existing one
\* is rewritten with the block replaced or appended.
ShellInstaller_updateZshrcBlock(o, block) ==
    IF ictx.DryRun
    THEN [o EXCEPT !.previews = @ \cup {block}]
    ELSE [o EXCEPT !.fs = [@ EXCEPT !.zshrc = TRUE], !.log = @ \cup {".zshrc"}]

\* backupFile, called when settings.backup_dotfiles is set and the run is not a
\* dry-run: nothing to do for a missing file.
ShellInstaller_backupFile(o) ==
    IF cfg.Settings.BackupDotfiles /\ ~ictx.DryRun
    THEN IF o.fs.zshrc
         THEN [o EXCEPT !.fs = [@ EXCEPT !.backup = TRUE], !.log = @ \cup {".zshrc.backup"}]
         ELSE o
    ELSE IF cfg.Settings.BackupDotfiles /\ ictx.DryRun
         THEN [o EXCEPT !.previews = @ \cup {"backup .zshrc"}]
         ELSE o

ShellInstaller_Install(s, r) ==
    LET o0 == ShellInstaller_backupFile(Go(Return("nil")))
        o1 == IF Len(cfg.Shell.Aliases) > 0
              THEN ShellInstaller_updateZshrcBlock(o0, "aliases") ELSE o0
        o2 == IF Len(cfg.Shell.Environment) > 0
              THEN ShellInstaller_updateZshrcBlock(o1, "environment") ELSE o1
        o3 == IF Len(cfg.Shell.ZshrcExtras) > 0
              THEN ShellInstaller_updateZshrcBlock(o2, "extras") ELSE o2
    IN  o3

\* The text of ~/.zshrc is a sequence of tokens: a marker line, a line of a
\* managed block, a line of the user's, or a newline.
NL == <<"\n">>

StartMarker(kind) == <<"start", kind>>

EndMarker(kind) == <<"end", kind>>

\* strings.Index: the position of the first occurrence, 0 when there is none
Index(content, tok) ==
    IF \E i \in 1..Len(content) : content[i] = tok
    THEN CHOOSE i \in 1..Len(content) :
             content[i] = tok /\ \A j \in 1..(i - 1) : content[j] # tok
    ELSE 0

\* strings.Join(lines, "\n")
RECURSIVE JoinLines(_)
JoinLines(lines) ==
    IF Len(lines) = 0 THEN << >>
    ELSE IF Len(lines) = 1 THEN <<lines[1]>>
    ELSE <<lines[1], NL>> \o JoinLines(Tail(lines))

\* an update that drops what follows the replaced block
updateZshrcBlock_Truncate(existed, content, startMarker, endMarker, newBlock) ==
    IF ~existed THEN newBlock \o <<NL>>
    ELSE LET startIdx == Index(content, startMarker)
             endIdx == Index(content, endMarker)
         IN  IF startIdx # 0 /\ endIdx # 0 /\ endIdx > startIdx
             THEN SubSeq(content, 1, startIdx - 1) \o newBlock
             ELSE (IF Len(content) > 0 /\ content[Len(content)] = NL
                   THEN content ELSE content \o <<NL>>)
                  \o <<NL>> \o newBlock \o <<NL>>

\* updateZshrcBlock, lines 169-199, on the text of the file
updateZshrcBlock(existed, content, startMarker, endMarker, newBlock) ==
    IF ~existed THEN newBlock \o <<NL>>
    ELSE LET startIdx == Index(content, startMarker)
             endIdx == Index(content, endMarker)
         IN  IF startIdx # 0 /\ endIdx # 0 /\ endIdx > startIdx
             THEN SubSeq(content, 1, startIdx - 1) \o newBlock
                  \o SubSeq(content, endIdx + 1, Len(content))
             ELSE (IF Len(content) > 0 /\ content[Len(content)] = NL
                   THEN content ELSE content \o <<NL>>)
                  \o <<NL>> \o newBlock \o <<NL>>

\* the orders a range over a Go map of n entries can take
Orders(n) == {p \in [1..n -> 1..n] : \A i, j \in 1..n : p[i] = p[j] => i = j}

\* configureAliases and configureEnvironment, lines 117-126 and 139-148: the
\* blocks a map can give, one for each order of its entries
MapBlocks(kind, word, entries) ==
    {JoinLines(<<StartMarker(kind)>>
               \o [i \in 1..Len(entries) |-> <<word, entries[p[i]][1], entries[p[i]][2]>>]
               \o <<EndMarker(kind)>>) : p \in Orders(Len(entries))}

\* addExtras, lines 158-165
ExtrasBlock(extras) ==
    JoinLines(<<StartMarker("extras")>>
              \o [i \in 1..Len(extras) |-> <<"extra", extras[i]>>]
              \o <<EndMarker("extras")>>)

\* the three blocks in the order Install writes them, lines 60-82
ShellStages == <<"aliases", "environment", "extras">>

\* Install's conditions on the three blocks, lines 61, 69, 77
ShellInstaller_configures(kind, c) ==
    CASE kind = "aliases" -> Len(c.Shell.Aliases) > 0
      [] kind = "environment" -> Len(c.Shell.Environment) > 0
      [] kind = "extras" -> Len(c.Shell.ZshrcExtras) > 0

ShellInstaller_blocks(kind, c) ==
    CASE kind = "aliases" -> MapBlocks(kind, "alias", c.Shell.Aliases)
      [] kind = "environment" -> MapBlocks(kind, "export", c.Shell.Environment)
      [] kind = "extras" -> {ExtrasBlock(c.Shell.ZshrcExtras)}

-----------------------------------------------------------------------------
(* internal/installer/macos.go *)

MacOSInstaller_IsInstalled(m) == FALSE

\* entries of the defaults tables of configureDock, configureFinder, configureKeyboard
DockDefaults == 6

FinderDefaults == 4

KeyboardDefaults == 4

\* the apps restartApps kills
RestartApps == 2

\* configureFinder appends FXPreferredViewStyle for a known view style
ViewStyles == {"icon", "list", "column", "gallery"}

MacOSInstaller_defaultsCount ==
    DockDefaults + FinderDefaults + KeyboardDefaults
    + (IF cfg.MacOS.Defaults.Finder.DefaultViewStyle \in ViewStyles THEN 1 ELSE 0)

\* applyDefaults over the three tables in turn, then restartApps.  In dry-run
\* every entry is only previewed and the apps are not restarted.
MacOSInstaller_applyDefaults(i) ==
    IF ictx.DryRun
    THEN Out(fs, fsLog, prompts, previews \cup {"defaults write"}, Return("nil"))
    ELSE IF i <= MacOSInstaller_defaultsCount
         THEN Go(Call("defaults write", AtItem("applyDefaults", i, {})))
         ELSE Go(Call("killall", AtItem("restartApps", 1, {})))

MacOSInstaller_Install(s, r) ==
    CASE s.at = "begin" ->
           IF ~cfg.MacOS.Configure THEN Go(Return("nil"))
           ELSE MacOSInstaller_applyDefaults(1)
      [] s.at = "applyDefaults" -> MacOSInstaller_applyDefaults(s.i + 1)
      [] s.at = "restartApps" ->
           IF s.i < RestartApps
           THEN Go(Call("killall", AtItem("restartApps", s.i + 1, {})))
           ELSE Go(Return("nil"))

-----------------------------------------------------------------------------
(* internal/installer/git.go *)

GitInstaller_IsInstalled(m) == FALSE

\* what Prompt.Input can give back: an error, an empty line, a value
InputAnswers == {"error", "", "typed"}

RECURSIVE GitInstaller_configureSettings(_)
GitInstaller_configureSettings(i) ==
    IF i > Len(cfg.Git.Settings) THEN Go(Return("nil"))
    ELSE IF ictx.DryRun
         THEN [GitInstaller_configureSettings(i + 1)
                 EXCEPT !.previews = @ \cup {"git config --global"}]
         ELSE Go(Call("git config --global", AtItem("setSetting", i, {})))

RECURSIVE GitInstaller_configureAliases(_)
GitInstaller_configureAliases(i) ==
    IF i > Len(cfg.Git.Aliases) THEN GitInstaller_configureSettings(1)
    ELSE IF ictx.DryRun
         THEN [GitInstaller_configureAliases(i + 1)
                 EXCEPT !.previews = @ \cup {"git config --global"}]
         ELSE Go(Call("git config --global", AtItem("setAlias", i, {})))

\* configureUser, lines 119-130: set user.email when there is one.
GitInstaller_setEmail(known, prm) ==
    IF "email" \in known
    THEN IF ictx.DryRun
         THEN [GitInstaller_configureAliases(1)
                 EXCEPT !.prompts = prm, !.previews = @ \cup {"git config --global"}]
         ELSE Out(fs, fsLog, prm, previews, Call("git config --global", AtStep("setEmail")))
    ELSE [GitInstaller_configureAliases(1)
            EXCEPT !.prompts = prm,
                   !.previews = IF ictx.DryRun THEN @ \cup {"Would prompt for Git user email"}
                                ELSE @]

\* configureUser, lines 108-117: set user.name when there is one.
GitInstaller_setName(known, prm) ==
    IF "name" \in known
    THEN IF ictx.DryRun
         THEN [GitInstaller_setEmail(known, prm)
                 EXCEPT !.previews = @ \cup {"git config --global"}]
         ELSE Out(fs, fsLog, prm, previews,
                  Call("git config --global", AtItem("setName", 0, known)))
    ELSE [GitInstaller_setEmail(known, prm)
            EXCEPT !.previews = IF ictx.DryRun THEN @ \cup {"Would prompt for Git user name"}
                                ELSE @]

\* configureUser, lines 82-106: name and email come from the configuration, else
\* from the existing git configuration, else from a prompt (interactive, no dry-run).
GitInstaller_resolveUser(existing) ==
    LET known0 == existing
                  \cup (IF cfg.Git.User.Name # "" THEN {"name"} ELSE {})
                  \cup (IF cfg.Git.User.Email # "" THEN {"email"} ELSE {})
        ask == cfg.Settings.Interactive /\ ~ictx.DryRun
        askName == "name" \notin known0 /\ ask
        askEmail == "email" \notin known0 /\ ask
        nameAnswers == IF askName /\ ictx.Prompt.Interactive THEN InputAnswers ELSE {""}
        emailAnswers == IF askEmail /\ ictx.Prompt.Interactive THEN InputAnswers ELSE {""}
        prmName == IF askName /\ ictx.Prompt.Interactive
                   THEN prompts \cup {"Git user name"} ELSE prompts
    IN  {IF n = "error"
         THEN Out(fs, fsLog, prmName, previews, Return("err"))
         ELSE IF e = "error"
              THEN Out(fs, fsLog, prmName \cup {"Git user email"}, previews, Return("err"))
              ELSE GitInstaller_setName(
                       known0 \cup (IF n = "typed" THEN {"name"} ELSE {})
                              \cup (IF e = "typed" THEN {"email"} ELSE {}),
                       IF askEmail /\ ictx.Prompt.Interactive
                       THEN prmName \cup {"Git user email"} ELSE prmName)
           : n \in nameAnswers, e \in emailAnswers}

\* GitInstaller.Install, one segment; the set of ways it can go on.
GitInstaller_Install(s, r) ==
    CASE s.at = "begin" ->
           IF ~cfg.Git.Configure THEN {Go(Return("nil"))}
           ELSE IF ~Exists(fs, "git") THEN {Go(Return("err"))}
           ELSE IF ictx.DryRun THEN GitInstaller_resolveUser({})
           ELSE {Go(Call("git config --get", AtStep("getName")))}
      [] s.at = "getName" ->
           {Go(Call("git config --get",
                    AtItem("getEmail", 0, IF r.err THEN {} ELSE {"name"})))}
      [] s.at = "getEmail" ->
           GitInstaller_resolveUser(s.seen \cup (IF r.err THEN {} ELSE {"email"}))
      [] s.at = "setName" ->
           IF r.err THEN {Go(Return("err"))} ELSE {GitInstaller_setEmail(s.seen, prompts)}
      [] s.at = "setEmail" ->
           IF r.err THEN {Go(Return("err"))} ELSE {GitInstaller_configureAliases(1)}
      [] s.at = "setAlias" -> {GitInstaller_configureAliases(s.i + 1)}
      [] s.at = "setSetting" -> {GitInstaller_configureSettings(s.i + 1)}

-----------------------------------------------------------------------------
(* internal/installer/ssh.go *)

\* a check that never finds the key file
SSHInstaller_IsInstalled_Never(m) == FALSE

SSHInstaller_IsInstalled(m) == m.keyFile

\* an Install that generates a key whatever ssh.generate_key says
SSHInstaller_generates_Always(c) == TRUE

\* Install, lines 233-236
SSHInstaller_generates(c) == c.SSH.GenerateKey

\* SSHInstaller.Install, one segment.  The comment is prompted for when it is
\* empty, the run interactive and not a dry-run; the prompt's answer only
\* changes the -C argument.
SSHInstaller_Install(s, r) ==
    CASE s.at = "begin" ->
           IF ~SSHInstaller_generates(cfg) THEN Go(Return("nil"))
           ELSE IF fs.keyFile THEN Go(Return("nil"))
           ELSE LET prm == IF cfg.SSH.Comment = "" /\ cfg.Settings.Interactive
                              /\ ~ictx.DryRun /\ ictx.Prompt.Interactive
                           THEN prompts \cup {"SSH key comment"} ELSE prompts
                IN  IF ictx.DryRun
                    THEN Out(fs, fsLog, prm,
                             previews \cup {"create directory .ssh", "ssh-keygen"},
                             Return("nil"))
                    ELSE Out([fs EXCEPT !.sshDir = TRUE],
                             IF fs.sshDir THEN fsLog ELSE fsLog \cup {".ssh"},
                             prm, previews, Call("ssh-keygen", AtStep("keygen")))
      [] s.at = "keygen" ->
           IF r.err THEN Go(Return("err"))
           ELSE IF r.ExitCode = 0
                THEN Out([fs EXCEPT !.keyFile = TRUE], fsLog, prompts, previews,
                         Call("ssh-agent", AtStep("agent")))
                ELSE Go(Return("nil"))
      [] s.at = "agent" -> Go(Call("ssh-add", AtStep("sshAdd")))
      [] s.at = "sshAdd" -> Go(Return("nil"))

-----------------------------------------------------------------------------
(* internal/installer/xcode.go *)

\* strings.TrimSpace of what xcode-select -p printed
TrimSpace(str) ==
    CASE str = "\n" -> ""
      [] str = "/Library/Developer/CommandLineTools\n" -> CommandLineTools
      [] OTHER -> str

\* os.Stat of the path xcode-select -p printed
PathExists(path, m) == path = CommandLineTools /\ m.clt = "ok"

\* XcodeInstaller.IsInstalled reaches its call of the gateway
XcodeInstaller_asksGateway(c, m) == ~c.DryRun /\ m.xcodeSelect

\* XcodeInstaller.IsInstalled, lines 279-308
XcodeInstaller_IsInstalled(c, done, m) ==
    IF c.DryRun THEN FALSE
    ELSE IF ~m.xcodeSelect THEN FALSE
    ELSE LET r == Executor_Run(c.Executor, done, Process("xcode-select -p", m))
         IN  IF r.err THEN FALSE
             ELSE IF TrimSpace(r.res.Stdout) = "" THEN FALSE
             ELSE PathExists(TrimSpace(r.res.Stdout), m)

-----------------------------------------------------------------------------
(* internal/installer/rosetta.go *)

\* RosettaInstaller.IsInstalled reaches its call of the gateway
RosettaInstaller_asksGateway(c, m) == m.arm64 /\ ~m.rosettaBin

\* RosettaInstaller.IsInstalled, lines 42-60
RosettaInstaller_IsInstalled(c, done, m) ==
    IF ~m.arm64 THEN TRUE
    ELSE IF m.rosettaBin THEN TRUE
    ELSE LET r == Executor_Run(c.Executor, done, Process("arch -x86_64 true", m))
         IN  ~r.err /\ r.res.ExitCode = 0

-----------------------------------------------------------------------------
(* internal/config: the configurations Load can yield *)

Take(seq, n) == SubSeq(seq, 1, n)

TapsList == <<"homebrew/cask-fonts", "homebrew/services", "hashicorp/tap">>

FormulaeList == <<"node@18", "git", "gh">>

CasksList == <<"iterm2", "docker", "rectangle">>

PluginsList == <<"zsh-autosuggestions", "git", "zsh-syntax-highlighting">>

KeyList == <<"a", "b", "c">>

\* The embedded default document, by leaf key (the path of the key in the YAML
\* tree): interactive, backups on, everything enabled, non-empty lists and
\* maps, no Git identity.
DefaultDoc ==
    (<<"version">> :> "1.0")
    @@ (<<"settings", "dry_run">> :> FALSE)
    @@ (<<"settings", "interactive">> :> TRUE)
    @@ (<<"settings", "backup_dotfiles">> :> TRUE)
    @@ (<<"homebrew", "install">> :> TRUE)
    @@ (<<"homebrew", "taps">> :> Take(TapsList, MaxList))
    @@ (<<"homebrew", "formulae">> :> Take(FormulaeList, MaxList))
    @@ (<<"homebrew", "casks">> :> Take(CasksList, MaxList))
    @@ (<<"terminal", "oh_my_zsh", "install">> :> TRUE)
    @@ (<<"terminal", "oh_my_zsh", "plugins">> :> Take(PluginsList, MaxList))
    @@ (<<"terminal", "powerlevel10k", "install">> :> TRUE)
    @@ (<<"terminal", "powerlevel10k", "style">> :> "")
    @@ [k \in {<<"shell", "aliases", KeyList[i]>> : i \in 1..MaxList} |-> "default"]
    @@ [k \in {<<"shell", "environment", KeyList[i]>> : i \in 1..MaxList} |-> "default"]
    @@ (<<"shell", "zshrc_extras">> :> Take(KeyList, MaxList))
    @@ (<<"macos", "configure">> :> TRUE)
    @@ (<<"macos", "defaults", "finder", "default_view_style">> :> "")
    @@ (<<"git", "configure">> :> TRUE)
    @@ (<<"git", "user", "name">> :> "")
    @@ (<<"git", "user", "email">> :> "")
    @@ [k \in {<<"git", "aliases", KeyList[i]>> : i \in 1..MaxList} |-> "default"]
    @@ [k \in {<<"git", "settings", KeyList[i]>> : i \in 1..MaxList} |-> "default"]
    @@ (<<"ssh", "generate_key">> :> TRUE)
    @@ (<<"ssh", "comment">> :> "")

\* a file that sets nothing
NoDoc == << >>

\* The sections a custom file may hold.  Its lists have n entries each.
ListsSection(n) ==
    (<<"homebrew", "taps">> :> Take(TapsList, n))
    @@ (<<"homebrew", "formulae">> :> Take(FormulaeList, n))
    @@ (<<"homebrew", "casks">> :> Take(CasksList, n))
    @@ (<<"terminal", "oh_my_zsh", "plugins">> :> Take(PluginsList, n))
    @@ (<<"shell", "zshrc_extras">> :> Take(KeyList, n))

NonInteractiveSection == (<<"settings", "interactive">> :> FALSE)

DryRunSection == (<<"version">> :> "2.0") @@ (<<"settings", "dry_run">> :> TRUE)

\* the Git identity, the SSH comment, the theme style, the Finder view style,
\* and a value of its own for an alias the defaults have too
WhoSection ==
    (<<"git", "user", "name">> :> "Ada")
    @@ (<<"git", "user", "email">> :> "ada@example.org")
    @@ (<<"ssh", "comment">> :> "ada@example.org")
    @@ (<<"terminal", "powerlevel10k", "style">> :> "lean")
    @@ (<<"macos", "defaults", "finder", "default_view_style">> :> "list")
    @@ (<<"shell", "aliases", KeyList[1]>> :> "custom")

\* every component switched off
OffSection ==
    (<<"homebrew", "install">> :> FALSE)
    @@ (<<"terminal", "oh_my_zsh", "install">> :> FALSE)
    @@ (<<"terminal", "powerlevel10k", "install">> :> FALSE)
    @@ (<<"macos", "configure">> :> FALSE)
    @@ (<<"git", "configure">> :> FALSE)
    @@ (<<"ssh", "generate_key">> :> FALSE)

FileDoc(n, interactive, on, who, dry) ==
    (IF n < MaxList THEN ListsSection(n) ELSE NoDoc)
    @@ (IF interactive THEN NoDoc ELSE NonInteractiveSection)
    @@ (IF on THEN NoDoc ELSE OffSection)
    @@ (IF who THEN WhoSection ELSE NoDoc)
    @@ (IF dry THEN DryRunSection ELSE NoDoc)

\* the custom files of the runs explored
Docs ==
    {FileDoc(n, i, TRUE, w, FALSE) : n \in 0..MaxList, i \in BOOLEAN, w \in BOOLEAN}
    \cup {FileDoc(MaxList, FALSE, FALSE, TRUE, FALSE)}
    \cup {FileDoc(MaxList, TRUE, TRUE, FALSE, TRUE)}

\* a merge in which the defaults win over the file
MergeInConfig_DefaultsWin(defaults, file) ==
    [k \in DOMAIN defaults \cup DOMAIN file |->
        IF k \in DOMAIN defaults THEN defaults[k] ELSE file[k]]

\* viper.ReadConfig of the defaults followed by viper.MergeInConfig of the file
\* (lines 17-37): the file's value for every leaf key the file sets, a list as
\* a whole, a map entry by entry; the default for every other key.
MergeInConfig(defaults, file) ==
    [k \in DOMAIN defaults \cup DOMAIN file |->
        IF k \in DOMAIN file THEN file[k] ELSE defaults[k]]

\* the entries of the map under a key, as name and value
MapEntries(d, prefix) ==
    LET set(a) == (prefix \o <<a>>) \in DOMAIN d
        names == SelectSeq(KeyList, set)
    IN  [i \in 1..Len(names) |-> <<names[i], d[prefix \o <<names[i]>>]>>]

\* v.Unmarshal(&cfg), lines 39-42, into the fields of schema.go
Unmarshal(d) ==
    [loaded |-> TRUE,
     Version |-> d[<<"version">>],
     Settings |-> [DryRun |-> d[<<"settings", "dry_run">>],
                   Interactive |-> d[<<"settings", "interactive">>],
                   BackupDotfiles |-> d[<<"settings", "backup_dotfiles">>]],
     Homebrew |-> [Install |-> d[<<"homebrew", "install">>],
                   Taps |-> d[<<"homebrew", "taps">>],
                   Formulae |-> d[<<"homebrew", "formulae">>],
                   Casks |-> d[<<"homebrew", "casks">>]],
     Terminal |-> [OhMyZsh |-> [Install |-> d[<<"terminal", "oh_my_zsh", "install">>],
                                Plugins |-> d[<<"terminal", "oh_my_zsh", "plugins">>]],
                   Powerlevel10k |-> [Install |-> d[<<"terminal", "powerlevel10k", "install">>],
                                      Style |-> d[<<"terminal", "powerlevel10k", "style">>]]],
     Shell |-> [Aliases |-> MapEntries(d, <<"shell", "aliases">>),
                Environment |-> MapEntries(d, <<"shell", "environment">>),
                ZshrcExtras |-> d[<<"shell", "zshrc_extras">>]],
     MacOS |-> [Configure |-> d[<<"macos", "configure">>],
                Defaults |-> [Finder |-> [DefaultViewStyle |->
                                 d[<<"macos", "defaults", "finder", "default_view_style">>]]]],
     Git |-> [Configure |-> d[<<"git", "configure">>],
              User |-> [Name |-> d[<<"git", "user", "name">>],
                        Email |-> d[<<"git", "user", "email">>]],
              Aliases |-> MapEntries(d, <<"git", "aliases">>),
              Settings |-> MapEntries(d, <<"git", "settings">>)],
     SSH |-> [GenerateKey |-> d[<<"ssh", "generate_key">>],
              Comment |-> d[<<"ssh", "comment">>]]]

\* what Load("") yields
DefaultConfig == Unmarshal(DefaultDoc)

\* what Load yields for the custom files
Configs == {Unmarshal(MergeInConfig(DefaultDoc, d)) : d \in Docs}

\* a Load that takes a missing file for an empty one
Load_MissingIsDefault(file, doc) ==
    IF file = "present"
    THEN [err |-> FALSE, cfg |-> Unmarshal(MergeInConfig(DefaultDoc, doc))]
    ELSE [err |-> FALSE, cfg |-> Unmarshal(DefaultDoc)]

\* config.Load, lines 13-45: `file` is "" for no --config, "missing" for a path
\* os.Stat fails on, "present" for a file whose document is `doc`
Load(file, doc) ==
    IF file = "missing" THEN [err |-> TRUE, cfg |-> NoCfg]
    ELSE IF file = "" THEN [err |-> FALSE, cfg |-> Unmarshal(DefaultDoc)]
    ELSE [err |-> FALSE, cfg |-> Unmarshal(MergeInConfig(DefaultDoc, doc))]

\* a context whose gateway is built without the dry-run flag
NewContext_LiveExecutor(c, dry) ==
    [DryRun |-> dry, Executor |-> [DryRun |-> FALSE],
     Prompt |-> [Interactive |-> c.Settings.Interactive]]

\* installer.NewContext
NewContext(c, dry) ==
    [DryRun |-> dry, Executor |-> [DryRun |-> dry],
     Prompt |-> [Interactive |-> c.Settings.Interactive]]

NoContext == [DryRun |-> FALSE, Executor |-> [DryRun |-> FALSE],
              Prompt |-> [Interactive |-> FALSE]]

-----------------------------------------------------------------------------
(* The machine: what the installers read and write *)

Machine(brew, onPath, omz, p10k, zshrc, key, git, pkgs) ==
    [brewBin |-> brew, shellPathBrew |-> onPath, sessionPath |-> FALSE,
     taps |-> {}, formulae |-> IF pkgs THEN {"node", "git"} ELSE {},
     casks |-> IF pkgs THEN {"iterm2"} ELSE {},
     apps |-> IF pkgs THEN {"docker"} ELSE {},
     omzDir |-> omz, themesDir |-> p10k, p10kDir |-> p10k,
     plugins |-> IF pkgs THEN {"zsh-autosuggestions"} ELSE {},
     zshrc |-> zshrc, backup |-> FALSE, sshDir |-> key, keyFile |-> key,
     gitOnPath |-> git,
     root |-> FALSE, arm64 |-> TRUE, xcodeSelect |-> TRUE,
     clt |-> IF git THEN "ok" ELSE "none", rosettaBin |-> FALSE, x86runs |-> FALSE]

\* a new machine with the Xcode tools' git
Fresh == Machine(FALSE, TRUE, FALSE, FALSE, FALSE, FALSE, TRUE, FALSE)

\* a new machine whose PATH has neither git nor Homebrew's directory
Bare == Machine(FALSE, FALSE, FALSE, FALSE, TRUE, FALSE, FALSE, FALSE)

\* everything already there
Provisioned == Machine(TRUE, TRUE, TRUE, TRUE, TRUE, TRUE, TRUE, TRUE)

\* Homebrew and Oh-My-Zsh there, theme and key missing, ~/.zshrc deleted
Partial == Machine(TRUE, TRUE, TRUE, FALSE, FALSE, FALSE, TRUE, TRUE)

\* Homebrew installed outside the shell's PATH, Oh-My-Zsh there, no theme
OffPath == Machine(TRUE, FALSE, TRUE, FALSE, TRUE, TRUE, TRUE, FALSE)

Machines == {Fresh, Bare, Provisioned, Partial, OffPath}

\* The same machines as to their developer tools and their processor: the
\* Command Line Tools absent, reported with an empty path, reported at a path
\* that is gone, or present; an Intel Mac; Apple Silicon with or without
\* Rosetta 2.
Hosts ==
    {[Fresh EXCEPT !.xcodeSelect = FALSE, !.clt = "none"],
     [Bare EXCEPT !.clt = "none"],
     [Fresh EXCEPT !.clt = "empty"],
     [Partial EXCEPT !.clt = "stale"],
     [Provisioned EXCEPT !.arm64 = FALSE, !.x86runs = TRUE],
     [Provisioned EXCEPT !.rosettaBin = TRUE, !.x86runs = TRUE],
     [OffPath EXCEPT !.x86runs = TRUE],
     Provisioned}

-----------------------------------------------------------------------------
(* internal/cli/install.go: runInstall, and installer.RunInstaller *)

Flags(sel, dry) ==
    [all |-> "all" \in sel, homebrew |-> "homebrew" \in sel,
     terminal |-> "terminal" \in sel, shell |-> "shell" \in sel,
     macos |-> "macos" \in sel, git |-> "git" \in sel, ssh |-> "ssh" \in sel,
     dryRun |-> dry]

\* the command lines of the runs explored step by step
Selections ==
    {{}, {"all"}, {"homebrew"}, {"terminal"}, {"shell", "macos"}, {"git", "ssh"}}

RunFlags == {Flags(sel, dry) : sel \in Selections, dry \in BOOLEAN}

NoStatus == [n \in NameSet |-> "None"]

IsInstalled(name, m) ==
    CASE name = "homebrew" -> HomebrewInstaller_IsInstalled(m)
      [] name = "oh-my-zsh" -> OhMyZshInstaller_IsInstalled(m)
      [] name = "powerlevel10k" -> Powerlevel10kInstaller_IsInstalled(m)
      [] name = "shell" -> ShellInstaller_IsInstalled(m)
      [] name = "macos" -> MacOSInstaller_IsInstalled(m)
      [] name = "git" -> GitInstaller_IsInstalled(m)
      [] name = "ssh" -> SSHInstaller_IsInstalled(m)

\* the state of one invocation before runInstall has done anything
Started ==
    /\ cfg = NoCfg
    /\ ictx = NoContext
    /\ pc = "load"
    /\ installersToRun = <<>>
    /\ idx = 1
    /\ errors = <<>>
    /\ status = [n \in NameSet |-> "Pending"]
    /\ ret = "none"
    /\ outcome = "none"
    /\ sig = "off"
    /\ ctxDone = FALSE
    /\ step = AtStep("begin")
    /\ exec = IdleExec
    /\ spawned = {}
    /\ fsLog = {}
    /\ prompts = {}
    /\ previews = {}
    /\ isInstalledCalls = [n \in NameSet |-> 0]
    /\ installCalls = [n \in NameSet |-> 0]
    /\ procKilled = FALSE
    /\ cancelledIn = "none"
    /\ failures = 0
    /\ failedCmds = {}
    /\ updaters = <<>>
    /\ updates = NoUpdates
    /\ result = NoReturn
    /\ answers = NoAnswers
    /\ timers = NoTimers
    /\ zshrcText = <<>>
    /\ applied = NoCall

Init ==
    /\ flags \in RunFlags
    /\ cfgFile \in {"", "present", "missing"}
    /\ cfgDoc \in (IF cfgFile = "present" THEN Docs ELSE {NoDoc})
    /\ fs \in Machines
    /\ prevStatus = NoStatus
    /\ runNo = 1
    /\ Started

inputVars == <<flags, cfgFile, cfgDoc, prevStatus, runNo>>

signalVars == <<sig, ctxDone, cancelledIn>>

installVars == <<step, exec, fs, spawned, fsLog, previews, procKilled, failures,
                 failedCmds>>

callVars == <<isInstalledCalls, installCalls>>

updateVars == <<updaters, updates>>

gatewayVars == <<result, answers>>

helperVars == <<timers, zshrcText, applied>>

\* lines 63-90: load the configuration, apply --dry-run, build the installer
\* context, start the signal goroutine
runInstall_Load ==
    /\ pc = "load"
    /\ LET l == Load(cfgFile, cfgDoc)
       IN  IF l.err
           THEN /\ pc' = "done"
                /\ outcome' = "config error"
                /\ UNCHANGED <<cfg, ictx, sig>>
           ELSE LET c == [l.cfg EXCEPT !.Settings.DryRun = @ \/ flags.dryRun]
                IN  /\ cfg' = c
                    /\ ictx' = NewContext(c, c.Settings.DryRun)
                    /\ sig' = "armed"
                    /\ pc' = "determine"
                    /\ outcome' = outcome
    /\ UNCHANGED <<inputVars, updateVars, gatewayVars, helperVars, installersToRun, idx, errors, status, ret, ctxDone,
                   cancelledIn, installVars, prompts, callVars>>

\* lines 92-98
runInstall_Determine ==
    /\ pc = "determine"
    /\ installersToRun' = determineInstallers(flags)
    /\ IF Len(installersToRun') = 0
       THEN pc' = "done" /\ outcome' = "nothing selected"
       ELSE pc' = "confirm" /\ outcome' = outcome
    /\ UNCHANGED <<inputVars, updateVars, gatewayVars, helperVars, cfg, ictx, idx, errors, status, ret, signalVars,
                   installVars, prompts, callVars>>

\* ui.Prompt.Confirm: the default when not interactive
ConfirmAnswers == IF ictx.Prompt.Interactive THEN {"yes", "no", "error"} ELSE {"yes"}

\* a confirmation asked for in dry-run too
runInstall_asks_EvenInDryRun(c) == c.Settings.Interactive

\* line 113
runInstall_asks(c) == c.Settings.Interactive /\ ~c.Settings.DryRun

\* whether what runInstall returned is an error
ReturnsError(o) == o \in {"config error", "interrupted", "failed"}

\* lines 112-120
runInstall_Confirm ==
    /\ pc = "confirm"
    /\ IF runInstall_asks(cfg)
       THEN \E answer \in ConfirmAnswers :
               /\ prompts' = prompts \cup {"Proceed with installation?"}
               /\ IF answer = "yes"
                  THEN pc' = "loop" /\ outcome' = outcome
                  ELSE pc' = "done" /\ outcome' = "declined"
       ELSE pc' = "loop" /\ UNCHANGED <<prompts, outcome>>
    /\ UNCHANGED <<inputVars, updateVars, gatewayVars, helperVars, cfg, ictx, installersToRun, idx, errors, status, ret,
                   signalVars, installVars, callVars>>

\* a loop that never looks at ctx.Done()
runInstall_select_Blind(done) == "default"

\* lines 125-128: the select on ctx.Done() with a default case
runInstall_select(done) == IF done THEN "interrupted" ELSE "default"

\* lines 124-133: the head of the for-range loop
runInstall_Loop ==
    /\ pc = "loop"
    /\ IF idx > Len(installersToRun)
       THEN pc' = "summary" /\ UNCHANGED <<outcome, status>>
       ELSE IF runInstall_select(ctxDone) = "interrupted"
            THEN pc' = "done" /\ outcome' = "interrupted" /\ status' = status
            ELSE /\ pc' = "check"
                 /\ status' = [status EXCEPT ![installersToRun[idx]] = "Running"]
                 /\ outcome' = outcome
    /\ UNCHANGED <<inputVars, updateVars, gatewayVars, helperVars, cfg, ictx, installersToRun, idx, errors, ret,
                   signalVars, installVars, prompts, callVars>>

\* a RunInstaller without the early return
RunInstaller_skips_Never(installed) == FALSE

\* RunInstaller, lines 123-126
RunInstaller_skips(installed) == installed

\* RunInstaller, lines 119-131: the install-state check, then the call of Install
RunInstaller_Check ==
    /\ pc = "check"
    /\ LET name == installersToRun[idx]
       IN  /\ isInstalledCalls' = [isInstalledCalls EXCEPT ![name] = @ + 1]
           /\ IF RunInstaller_skips(IsInstalled(name, fs))
              THEN /\ status' = [status EXCEPT ![name] = "Skipped"]
                   /\ ret' = "nil"
                   /\ pc' = "returned"
                   /\ installCalls' = installCalls
              ELSE /\ installCalls' = [installCalls EXCEPT ![name] = @ + 1]
                   /\ pc' = "install"
                   /\ UNCHANGED <<status, ret>>
    /\ UNCHANGED <<inputVars, updateVars, gatewayVars, helperVars, cfg, ictx, installersToRun, idx, errors, outcome,
                   signalVars, installVars, prompts>>

\* Install of the installer `name` is on the stack of RunInstaller
Installing(name) == pc = "install" /\ installersToRun[idx] = name

\* One segment of the running Install: it consumed the gateway's result r and
\* went on as o says, into the gateway again or back to RunInstaller.
Proceed(r, o) ==
    /\ fs' = o.fs
    /\ fsLog' = o.log
    /\ prompts' = o.prompts
    /\ procKilled' = (procKilled \/ r.how = "killed")
    /\ failures' = IF r.how = "exit" /\ r.err THEN failures + 1 ELSE failures
    /\ failedCmds' = IF r.err THEN failedCmds \cup {exec.cmd} ELSE failedCmds
    /\ IF o.k.op = "call"
       THEN LET e == ExecutorStart(o.k.cmd)
            IN  /\ exec' = e
                /\ step' = o.k.step
                /\ spawned' = IF e.st = "running" THEN spawned \cup {o.k.cmd} ELSE spawned
                /\ previews' = IF e.st = "dry" THEN o.previews \cup {o.k.cmd}
                               ELSE o.previews
                /\ UNCHANGED <<ret, pc>>
       ELSE /\ exec' = IdleExec
            /\ step' = AtStep("begin")
            /\ spawned' = spawned
            /\ previews' = o.previews
            /\ ret' = o.k.ret
            /\ pc' = "installed"
    /\ UNCHANGED <<inputVars, updateVars, gatewayVars, helperVars, cfg, ictx, installersToRun, idx, errors, status,
                   outcome, signalVars, callVars>>

HomebrewInstaller_InstallStep ==
    /\ Installing("homebrew")
    /\ \E r \in ExecutorResults : Proceed(r, HomebrewInstaller_Install(step, r))

OhMyZshInstaller_InstallStep ==
    /\ Installing("oh-my-zsh")
    /\ \E r \in ExecutorResults : Proceed(r, OhMyZshInstaller_Install(step, r))

Powerlevel10kInstaller_InstallStep ==
    /\ Installing("powerlevel10k")
    /\ \E r \in ExecutorResults : Proceed(r, Powerlevel10kInstaller_Install(step, r))

ShellInstaller_InstallStep ==
    /\ Installing("shell")
    /\ \E r \in ExecutorResults : Proceed(r, ShellInstaller_Install(step, r))

MacOSInstaller_InstallStep ==
    /\ Installing("macos")
    /\ \E r \in ExecutorResults : Proceed(r, MacOSInstaller_Install(step, r))

GitInstaller_InstallStep ==
    /\ Installing("git")
    /\ \E r \in ExecutorResults : \E o \in GitInstaller_Install(step, r) : Proceed(r, o)

SSHInstaller_InstallStep ==
    /\ Installing("ssh")
    /\ \E r \in ExecutorResults : Proceed(r, SSHInstaller_Install(step, r))

\* a RunInstaller that reports a failed Install and leaves its state alone
RunInstaller_state_FailedStaysRunning(e) == IF e = "err" THEN "Running" ELSE "Succeeded"

\* RunInstaller, lines 131-139: the state Install's return value leads to
RunInstaller_state(e) == IF e = "err" THEN "Failed" ELSE "Succeeded"

\* RunInstaller, lines 131-139: Install has returned
RunInstaller_Return ==
    /\ pc = "installed"
    /\ status' = [status EXCEPT ![installersToRun[idx]] = RunInstaller_state(ret)]
    /\ pc' = "returned"
    /\ UNCHANGED <<inputVars, updateVars, gatewayVars, helperVars, cfg, ictx, installersToRun, idx, errors, ret, outcome,
                   signalVars, installVars, prompts, callVars>>

\* a loop body that leaves the loop at the first error
runInstall_next_AbortOnError(e) == IF e = "err" THEN "summary" ELSE "loop"

\* where the loop body leaves the loop: always at its head again
runInstall_next(e) == "loop"

\* lines 129-132: RunInstaller has returned into the loop body
runInstall_Collect ==
    /\ pc = "returned"
    /\ errors' = IF ret = "err" THEN Append(errors, installersToRun[idx]) ELSE errors
    /\ idx' = idx + 1
    /\ ret' = "none"
    /\ pc' = runInstall_next(ret)
    /\ UNCHANGED <<inputVars, updateVars, gatewayVars, helperVars, cfg, ictx, installersToRun, status, outcome,
                   signalVars, installVars, prompts, callVars>>

\* a summary that ignores the error list
runInstall_result_Success(errs) == "success"

\* lines 137-152: what runInstall returns after the loop
runInstall_result(errs) == IF Len(errs) > 0 THEN "failed" ELSE "success"

\* lines 135-153
runInstall_Summary ==
    /\ pc = "summary"
    /\ outcome' = runInstall_result(errors)
    /\ pc' = "done"
    /\ UNCHANGED <<inputVars, updateVars, gatewayVars, helperVars, cfg, ictx, installersToRun, idx, errors, status, ret,
                   signalVars, installVars, prompts, callVars>>

\* SIGINT or SIGTERM is delivered to sigCh (lines 84-85)
Signal ==
    /\ sig = "armed"
    /\ pc # "done"
    /\ sig' = "raised"
    /\ UNCHANGED <<inputVars, updateVars, gatewayVars, helperVars, cfg, ictx, pc, installersToRun, idx, errors, status,
                   ret, outcome, ctxDone, cancelledIn, installVars, prompts, callVars>>

\* the signal goroutine, lines 86-90: receive, print, cancel()
SignalHandler ==
    /\ sig = "raised"
    /\ pc # "done"
    /\ sig' = "handled"
    /\ ctxDone' = TRUE
    /\ cancelledIn' = CASE pc \in {"determine", "confirm"} -> "setup"
                         [] pc \in {"loop", "summary"} -> "between"
                         [] OTHER -> "action"
    /\ UNCHANGED <<inputVars, updateVars, gatewayVars, helperVars, cfg, ictx, pc, installersToRun, idx, errors, status,
                   ret, outcome, installVars, prompts, callVars>>

InstallSteps ==
    \/ HomebrewInstaller_InstallStep
    \/ OhMyZshInstaller_InstallStep
    \/ Powerlevel10kInstaller_InstallStep
    \/ ShellInstaller_InstallStep
    \/ MacOSInstaller_InstallStep
    \/ GitInstaller_InstallStep
    \/ SSHInstaller_InstallStep

Main ==
    \/ runInstall_Load
    \/ runInstall_Determine
    \/ runInstall_Confirm
    \/ runInstall_Loop
    \/ RunInstaller_Check
    \/ InstallSteps
    \/ RunInstaller_Return
    \/ runInstall_Collect
    \/ runInstall_Summary

Next == Main \/ Signal \/ SignalHandler

Spec == Init /\ [][Next]_vars

-----------------------------------------------------------------------------
(* determineInstallers over every combination of the flags *)

InitSelect ==
    /\ flags \in AllFlags
    /\ cfgFile = ""
    /\ cfgDoc = NoDoc
    /\ fs = Fresh
    /\ prevStatus = NoStatus
    /\ runNo = 1
    /\ Started

NextSelect == runInstall_Load \/ runInstall_Determine

SpecSelect == InitSelect /\ [][NextSelect]_vars

-----------------------------------------------------------------------------
(* The tool invoked several times in a row on the same machine *)

\* A new process: the machine is as the last run left it, except the PATH that
\* installHomebrew set with os.Setenv, which died with that process.
Relaunch ==
    /\ pc = "done"
    /\ runNo < MaxRuns
    /\ runNo' = runNo + 1
    /\ prevStatus' = status
    /\ fs' = [fs EXCEPT !.sessionPath = FALSE]
    /\ cfg' = NoCfg
    /\ ictx' = NoContext
    /\ pc' = "load"
    /\ installersToRun' = <<>>
    /\ idx' = 1
    /\ errors' = <<>>
    /\ status' = [n \in NameSet |-> "Pending"]
    /\ ret' = "none"
    /\ outcome' = "none"
    /\ sig' = "off"
    /\ ctxDone' = FALSE
    /\ step' = AtStep("begin")
    /\ exec' = IdleExec
    /\ spawned' = {}
    /\ fsLog' = {}
    /\ prompts' = {}
    /\ previews' = {}
    /\ isInstalledCalls' = [n \in NameSet |-> 0]
    /\ installCalls' = [n \in NameSet |-> 0]
    /\ procKilled' = FALSE
    /\ cancelledIn' = "none"
    /\ failures' = 0
    /\ failedCmds' = {}
    /\ UNCHANGED <<flags, cfgFile, cfgDoc, updateVars, gatewayVars, helperVars>>

\* install --all, dry-run off, run to completion every time
InitTwice ==
    /\ flags = Flags({"all"}, FALSE)
    /\ cfgFile = "present"
    /\ cfgDoc \in {d \in Docs : ~Unmarshal(MergeInConfig(DefaultDoc, d)).Settings.DryRun}
    /\ fs \in Machines
    /\ prevStatus = NoStatus
    /\ runNo = 1
    /\ Started

NextTwice == Main \/ Relaunch

SpecTwice == InitTwice /\ [][NextTwice]_vars

-----------------------------------------------------------------------------
(* The gateway and the install-state checks called directly, as            *)
(* executor_test.go and runStatus call them, under either dry-run setting  *)

ComponentInstalled(n, c, done, m) ==
    CASE n = "xcode" -> XcodeInstaller_IsInstalled(c, done, m)
      [] n = "rosetta" -> RosettaInstaller_IsInstalled(c, done, m)
      [] OTHER -> IsInstalled(n, m)

\* the command an install-state check hands to the gateway, if any
ComponentAsks(n, c, m) ==
    CASE n = "xcode" /\ XcodeInstaller_asksGateway(c, m) -> {"xcode-select -p"}
      [] n = "rosetta" /\ RosettaInstaller_asksGateway(c, m) -> {"arch -x86_64 true"}
      [] OTHER -> {}

Answer(b) == IF b THEN "installed" ELSE "not installed"

\* inst.IsInstalled(ctx) of the next component of the list
Installer_IsInstalledCall ==
    /\ pc = "status"
    /\ idx <= Len(Components)
    /\ LET n == Components[idx]
           asked == ComponentAsks(n, ictx, fs)
           rs == {Executor_Run(ictx.Executor, ctxDone, Process(cmd, fs)) : cmd \in asked}
       IN  /\ answers' = [answers EXCEPT ![n] = Answer(ComponentInstalled(n, ictx, ctxDone, fs))]
           /\ spawned' = IF \E r \in rs : r.spawns THEN spawned \cup asked ELSE spawned
           /\ previews' = IF \E r \in rs : r.preview THEN previews \cup asked ELSE previews
    /\ idx' = idx + 1
    /\ UNCHANGED <<inputVars, updateVars, cfg, ictx, pc, installersToRun, errors,
                   status, ret, outcome, signalVars, step, exec, fs, fsLog, prompts,
                   procKilled, failures, failedCmds, callVars, result, helperVars>>

\* exec.Run(ctx, name, args...)
Executor_RunCall ==
    /\ pc = "status"
    /\ \E cmd \in Commands :
          LET r == Executor_Run(ictx.Executor, ctxDone, Process(cmd, fs))
          IN  /\ result' = Called("Run", cmd, Process(cmd, fs), r, FALSE)
              /\ spawned' = IF r.spawns THEN spawned \cup {cmd} ELSE spawned
              /\ previews' = IF r.preview THEN previews \cup {cmd} ELSE previews
    /\ UNCHANGED <<inputVars, updateVars, cfg, ictx, pc, installersToRun, idx, errors,
                   status, ret, outcome, signalVars, step, exec, fs, fsLog, prompts,
                   procKilled, failures, failedCmds, callVars, answers, helperVars>>

\* exec.RunInteractive(ctx, name, args...)
Executor_RunInteractiveCall ==
    /\ pc = "status"
    /\ \E cmd \in Commands :
          LET r == Executor_RunInteractive(ictx.Executor, ctxDone, Process(cmd, fs))
          IN  /\ result' = Called("RunInteractive", cmd, Process(cmd, fs), r, FALSE)
              /\ spawned' = IF r.spawns THEN spawned \cup {cmd} ELSE spawned
              /\ previews' = IF r.preview THEN previews \cup {cmd} ELSE previews
    /\ UNCHANGED <<inputVars, updateVars, cfg, ictx, pc, installersToRun, idx, errors,
                   status, ret, outcome, signalVars, step, exec, fs, fsLog, prompts,
                   procKilled, failures, failedCmds, callVars, answers, helperVars>>

\* exec.Exists(name)
Executor_ExistsCall ==
    /\ pc = "status"
    /\ \E name \in {"brew", "git", "nonexistent-command-12345"} :
          result' = Called("Exists", name, NoReturn.proc, NoReturn.ret, Exists(fs, name))
    /\ UNCHANGED <<inputVars, updateVars, cfg, ictx, pc, installersToRun, idx, errors,
                   status, ret, outcome, signalVars, installVars, prompts, callVars,
                   answers, helperVars>>

\* a context built by NewContext from the defaults and the dry-run flag, on
\* every host, with nothing called yet
InitGateway ==
    /\ flags \in {Flags({"all"}, dry) : dry \in BOOLEAN}
    /\ cfgFile = ""
    /\ cfgDoc = NoDoc
    /\ cfg = [Load(cfgFile, cfgDoc).cfg EXCEPT !.Settings.DryRun = flags.dryRun]
    /\ ictx = NewContext(cfg, cfg.Settings.DryRun)
    /\ fs \in Hosts
    /\ pc = "status"
    /\ installersToRun = <<>>
    /\ idx = 1
    /\ errors = <<>>
    /\ status = [n \in NameSet |-> "Pending"]
    /\ ret = "none"
    /\ outcome = "none"
    /\ sig = "off"
    /\ ctxDone \in BOOLEAN
    /\ step = AtStep("begin")
    /\ exec = IdleExec
    /\ spawned = {}
    /\ fsLog = {}
    /\ prompts = {}
    /\ previews = {}
    /\ isInstalledCalls = [n \in NameSet |-> 0]
    /\ installCalls = [n \in NameSet |-> 0]
    /\ procKilled = FALSE
    /\ cancelledIn = "none"
    /\ failures = 0
    /\ failedCmds = {}
    /\ prevStatus = NoStatus
    /\ runNo = 1
    /\ updaters = <<>>
    /\ updates = NoUpdates
    /\ result = NoReturn
    /\ answers = NoAnswers
    /\ timers = NoTimers
    /\ zshrcText = <<>>
    /\ applied = NoCall

NextGateway ==
    \/ Installer_IsInstalledCall
    \/ Executor_RunCall
    \/ Executor_RunInteractiveCall
    \/ Executor_ExistsCall

SpecGateway == InitGateway /\ [][NextGateway]_vars

\* the context the same run would have had with the other dry-run setting
OtherDryRun(c) == [c EXCEPT !.DryRun = ~@, !.Executor = [DryRun |-> ~c.Executor.DryRun]]

\* C11 (as stated): whatever the machine, each of the nine components' install-
\* state check answers under this run's dry-run setting what it answers under
\* the other one.
C11_SameAnswerInDryRun ==
    \A n \in ComponentSet :
        answers[n] # "unchecked" =>
            answers[n] = Answer(ComponentInstalled(n, OtherDryRun(ictx), ctxDone, fs))

-----------------------------------------------------------------------------
(* internal/installer/xcode.go: waitForInstallation *)

\* a select without the timeout case
waitForInstallation_ready_NoTimeout(done, t) ==
    (IF done THEN {"done"} ELSE {}) \cup (IF t.tick THEN {"tick"} ELSE {})

\* the cases of the select (lines 366-379) that can proceed
waitForInstallation_ready(done, t) ==
    (IF done THEN {"done"} ELSE {})
    \cup (IF t.timeout THEN {"timeout"} ELSE {})
    \cup (IF t.tick THEN {"tick"} ELSE {})

\* the state every specification without an install run starts its run
\* variables in
Idle ==
    /\ installersToRun = <<>>
    /\ idx = 1
    /\ errors = <<>>
    /\ status = [n \in NameSet |-> "Pending"]
    /\ ret = "none"
    /\ outcome = "none"
    /\ step = AtStep("begin")
    /\ exec = IdleExec
    /\ spawned = {}
    /\ fsLog = {}
    /\ prompts = {}
    /\ previews = {}
    /\ isInstalledCalls = [n \in NameSet |-> 0]
    /\ installCalls = [n \in NameSet |-> 0]
    /\ procKilled = FALSE
    /\ cancelledIn = "none"
    /\ failures = 0
    /\ failedCmds = {}
    /\ prevStatus = NoStatus
    /\ runNo = 1
    /\ updaters = <<>>
    /\ updates = NoUpdates
    /\ result = NoReturn
    /\ answers = NoAnswers

\* 5 seconds pass: the ticker delivers a tick (its channel holds one), and
\* after 30 minutes the timer delivers its timeout
Clock_Tick ==
    /\ pc = "wait"
    /\ timers.elapsed < MaxTicks
    /\ timers' = [tick |-> TRUE,
                  timeout |-> timers.timeout \/ timers.elapsed + 1 = MaxTicks,
                  elapsed |-> timers.elapsed + 1]
    /\ UNCHANGED <<inputVars, updateVars, gatewayVars, cfg, ictx, pc, installersToRun,
                   idx, errors, status, ret, outcome, signalVars, installVars, prompts,
                   callVars, zshrcText, applied>>

\* the system's installer, started by the dialog, finishes
Dialog_Completes ==
    /\ pc = "wait"
    /\ fs.xcodeSelect /\ fs.clt # "ok"
    /\ fs' = [fs EXCEPT !.clt = "ok"]
    /\ UNCHANGED <<inputVars, updateVars, gatewayVars, helperVars, cfg, ictx, pc,
                   installersToRun, idx, errors, status, ret, outcome, signalVars, step,
                   exec, spawned, fsLog, previews, procKilled, failures, failedCmds,
                   prompts, callVars>>

\* case <-ctx.Done(), lines 367-369
waitForInstallation_Cancelled ==
    /\ pc = "wait"
    /\ "done" \in waitForInstallation_ready(ctxDone, timers)
    /\ ret' = "cancelled"
    /\ pc' = "done"
    /\ UNCHANGED <<inputVars, updateVars, gatewayVars, helperVars, cfg, ictx,
                   installersToRun, idx, errors, status, outcome, signalVars,
                   installVars, prompts, callVars>>

\* case <-timeout.C, lines 370-372
waitForInstallation_Timeout ==
    /\ pc = "wait"
    /\ "timeout" \in waitForInstallation_ready(ctxDone, timers)
    /\ ret' = "timeout"
    /\ pc' = "done"
    /\ UNCHANGED <<inputVars, updateVars, gatewayVars, helperVars, cfg, ictx,
                   installersToRun, idx, errors, status, outcome, signalVars,
                   installVars, prompts, callVars>>

\* case <-ticker.C, lines 373-378: one poll of IsInstalled
waitForInstallation_Poll ==
    /\ pc = "wait"
    /\ "tick" \in waitForInstallation_ready(ctxDone, timers)
    /\ timers' = [timers EXCEPT !.tick = FALSE]
    /\ IF XcodeInstaller_IsInstalled(ictx, ctxDone, fs)
       THEN ret' = "nil" /\ pc' = "done"
       ELSE UNCHANGED <<ret, pc>>
    /\ UNCHANGED <<inputVars, updateVars, gatewayVars, cfg, ictx, installersToRun,
                   idx, errors, status, outcome, signalVars, installVars, prompts,
                   callVars, zshrcText, applied>>

\* waitForInstallation entered by Install outside dry-run, on every host
InitWait ==
    /\ flags = Flags({"all"}, FALSE)
    /\ cfgFile = ""
    /\ cfgDoc = NoDoc
    /\ cfg = DefaultConfig
    /\ ictx = NewContext(cfg, FALSE)
    /\ fs \in Hosts
    /\ pc = "wait"
    /\ sig = "armed"
    /\ ctxDone = FALSE
    /\ timers = NoTimers
    /\ zshrcText = <<>>
    /\ applied = NoCall
    /\ Idle

NextWait ==
    \/ Clock_Tick
    \/ Dialog_Completes
    \/ waitForInstallation_Cancelled
    \/ waitForInstallation_Timeout
    \/ waitForInstallation_Poll
    \/ Signal
    \/ SignalHandler

\* time passes, and a select with a case that stays ready takes a case
SpecWait ==
    /\ InitWait /\ [][NextWait]_vars
    /\ WF_vars(Clock_Tick)
    /\ WF_vars(waitForInstallation_Timeout)

-----------------------------------------------------------------------------
(* The helpers called on their own *)

\* the argument lists of up to MaxArgs words
RECURSIVE ArgLists(_)
ArgLists(n) ==
    IF n = 0 THEN {<< >>}
    ELSE ArgLists(n - 1) \cup {Append(l, w) : l \in {a \in ArgLists(n - 1) : Len(a) = n - 1}, w \in Words}

\* formatCommand(name, args)
formatCommand_Call ==
    /\ pc = "helpers"
    /\ applied = NoCall
    /\ \E name \in {<<"g", "i", "t">>, <<"s", "h">>}, args \in ArgLists(MaxArgs) :
          applied' = [fn |-> "formatCommand", in |-> <<name, args>>,
                      out |-> formatCommand(name, args)]
    /\ UNCHANGED <<inputVars, updateVars, gatewayVars, cfg, ictx, pc, installersToRun,
                   idx, errors, status, ret, outcome, signalVars, installVars, prompts,
                   callVars, timers, zshrcText>>

InitFormat ==
    /\ flags = Flags({"all"}, TRUE)
    /\ cfgFile = ""
    /\ cfgDoc = NoDoc
    /\ cfg = DefaultConfig
    /\ ictx = NewContext(cfg, TRUE)
    /\ fs = Fresh
    /\ pc = "helpers"
    /\ sig = "off"
    /\ ctxDone = FALSE
    /\ timers = NoTimers
    /\ zshrcText = <<>>
    /\ applied = NoCall
    /\ Idle

NextFormat == formatCommand_Call

SpecFormat == InitFormat /\ [][NextFormat]_vars

-----------------------------------------------------------------------------
(* internal/installer/versioncheck.go *)

\* the byte of a character of a version string
Byte(ch) ==
    CASE ch = "-" -> 45 [] ch = "." -> 46
      [] ch = "0" -> 48 [] ch = "1" -> 49 [] ch = "9" -> 57
      [] ch = "d" -> 100 [] ch = "e" -> 101 [] ch = "i" -> 105
      [] ch = "r" -> 114 [] ch = "t" -> 116 [] ch = "v" -> 118
      [] ch = "y" -> 121

\* a < b on Go strings: byte by byte, a proper prefix first
RECURSIVE StringLess(_, _)
StringLess(a, b) ==
    IF b = << >> THEN FALSE
    ELSE IF a = << >> THEN TRUE
    ELSE IF Byte(Head(a)) # Byte(Head(b)) THEN Byte(Head(a)) < Byte(Head(b))
    ELSE StringLess(Tail(a), Tail(b))

\* strings.Split(str, ".")
RECURSIVE Split(_)
Split(str) ==
    IF ~Contains(str, ".") THEN <<str>>
    ELSE LET i == CHOOSE i \in 1..Len(str) :
                      str[i] = "." /\ \A j \in 1..(i - 1) : str[j] # "."
         IN  <<SubSeq(str, 1, i - 1)>> \o Split(SubSeq(str, i + 1, Len(str)))

\* strings.Contains(str, sub)
ContainsString(str, sub) ==
    \E i \in 1..(Len(str) - Len(sub) + 1) : SubSeq(str, i, i + Len(sub) - 1) = sub

\* isNewerVersion, lines 100-108: the loop over the common components, from i
RECURSIVE isNewerVersion_parts(_, _, _)
isNewerVersion_parts(i, latestParts, currentParts) ==
    IF i > Len(latestParts) \/ i > Len(currentParts)
    THEN Len(latestParts) > Len(currentParts)
    ELSE IF StringLess(currentParts[i], latestParts[i]) THEN TRUE
    ELSE IF StringLess(latestParts[i], currentParts[i]) THEN FALSE
    ELSE isNewerVersion_parts(i + 1, latestParts, currentParts)

\* VersionChecker.isNewerVersion, lines 88-109
isNewerVersion(latest, current) ==
    IF current = << >> \/ current = <<"d", "e", "v">>
          \/ ContainsString(current, <<"d", "i", "r", "t", "y">>)
    THEN FALSE
    ELSE isNewerVersion_parts(1, Split(latest), Split(current))

\* the components the versions are made of: 1, 9 and 10
VersionParts == {<<"1">>, <<"9">>, <<"1", "0">>}

\* the release versions of up to n components
RECURSIVE Versions(_)
Versions(n) ==
    IF n = 1 THEN VersionParts
    ELSE Versions(n - 1)
         \cup {v \o <<".">> \o c : v \in {w \in Versions(n - 1) : Len(Split(w)) = n - 1},
                                   c \in VersionParts}

\* the versions of a build that is not a release: unset, dev, and a dirty tree
DevVersions ==
    {<< >>, <<"d", "e", "v">>, <<"1", ".", "9", "-", "d", "i", "r", "t", "y">>}

\* isNewerVersion(latest, current)
isNewerVersion_Call ==
    /\ pc = "helpers"
    /\ applied = NoCall
    /\ \E latest \in Versions(MaxParts), current \in Versions(MaxParts) \cup DevVersions :
          applied' = [fn |-> "isNewerVersion", in |-> <<latest, current>>,
                      out |-> isNewerVersion(latest, current)]
    /\ UNCHANGED <<inputVars, updateVars, gatewayVars, cfg, ictx, pc, installersToRun,
                   idx, errors, status, ret, outcome, signalVars, installVars, prompts,
                   callVars, timers, zshrcText>>

NextVersion == isNewerVersion_Call

SpecVersion == InitFormat /\ [][NextVersion]_vars

\* the ~/.zshrc files the shell installer is run on: empty, without managed
\* blocks (with and without a final newline), with an aliases block between
\* the user's lines, with an end marker before the start marker, with a start
\* marker that has no end marker, and with an end marker before a whole block
Texts ==
    LET u1 == <<"line", "u1">>
        u2 == <<"line", "u2">>
        old == <<"alias", "old", "old">>
        sa == StartMarker("aliases")
        ea == EndMarker("aliases")
    IN  {<< >>,
         <<u1, NL>>,
         <<u1>>,
         <<u1, NL, sa, NL, old, NL, ea, NL, u2, NL>>,
         <<ea, NL, u1, NL, sa, NL>>,
         <<u1, NL, sa, NL, u2, NL>>,
         <<ea, NL, sa, NL, old, NL, ea, NL>>,
         <<u1, NL, StartMarker("extras"), NL, EndMarker("extras"), NL, u2>>}

\* Install, lines 60-82, outside dry-run: the next of the three blocks
ShellInstaller_configure ==
    /\ pc = "shell"
    /\ LET kind == ShellStages[idx]
       IN  IF ShellInstaller_configures(kind, cfg)
           THEN \E b \in ShellInstaller_blocks(kind, cfg) :
                  /\ zshrcText' = updateZshrcBlock(fs.zshrc, zshrcText,
                                       StartMarker(kind), EndMarker(kind), b)
                  /\ applied' = [fn |-> "updateZshrcBlock",
                                 in |-> <<fs.zshrc, zshrcText, kind, b>>,
                                 out |-> zshrcText']
                  /\ fs' = [fs EXCEPT !.zshrc = TRUE]
                  /\ fsLog' = fsLog \cup {".zshrc"}
           ELSE UNCHANGED <<zshrcText, applied, fs, fsLog>>
    /\ idx' = idx + 1
    /\ pc' = IF idx = Len(ShellStages) THEN "ran" ELSE "shell"
    /\ UNCHANGED <<inputVars, updateVars, gatewayVars, timers, cfg, ictx,
                   installersToRun, errors, status, ret, outcome, signalVars, step,
                   exec, spawned, previews, procKilled, failures, failedCmds, prompts,
                   callVars>>

\* the shell installer is run once more, with the same configuration
ShellInstaller_Again ==
    /\ pc = "ran"
    /\ runNo < MaxRuns
    /\ runNo' = runNo + 1
    /\ idx' = 1
    /\ pc' = "shell"
    /\ UNCHANGED <<flags, cfgFile, cfgDoc, prevStatus, updateVars, gatewayVars,
                   helperVars, cfg, ictx, installersToRun, errors, status, ret,
                   outcome, signalVars, installVars, prompts, callVars>>

InitZshrc ==
    /\ flags = Flags({"shell"}, FALSE)
    /\ cfgFile = "present"
    /\ cfgDoc \in {NoDoc, FileDoc(0, TRUE, TRUE, TRUE, FALSE)}
    /\ cfg = Load(cfgFile, cfgDoc).cfg
    /\ ictx = NewContext(cfg, FALSE)
    /\ fs \in {Fresh, Bare}
    /\ zshrcText \in (IF fs.zshrc THEN Texts ELSE {<< >>})
    /\ pc = "shell"
    /\ sig = "off"
    /\ ctxDone = FALSE
    /\ timers = NoTimers
    /\ applied = NoCall
    /\ Idle

NextZshrc == ShellInstaller_configure \/ ShellInstaller_Again

SpecZshrc == InitZshrc /\ [][NextZshrc]_vars

-----------------------------------------------------------------------------
(* internal/installer/updater.go *)

\* an Update for which every sub-step is fatal
HomebrewUpdater_fatal_Every(cmd) == TRUE

\* the sub-steps whose error Update returns (lines 47-50, 62-65); the errors of
\* the cask upgrade and of the cleanup are warnings (lines 77-79, 93-94)
HomebrewUpdater_fatal(cmd) == cmd \in {"brew update", "brew upgrade"}

\* HomebrewUpdater.Update, one segment, lines 33-101
HomebrewUpdater_Update(s, r) ==
    CASE s.at = "begin" ->
           IF ~Exists(fs, "brew") THEN Go(Return("err"))
           ELSE IF ictx.DryRun
                THEN Out(fs, fsLog, prompts,
                         previews \cup {"brew update", "brew upgrade",
                                        "brew upgrade --cask", "brew cleanup"},
                         Return("nil"))
                ELSE Go(Call("brew update", AtStep("update")))
      [] s.at = "update" ->
           IF r.err /\ HomebrewUpdater_fatal("brew update") THEN Go(Return("err"))
           ELSE Go(Call("brew upgrade", AtStep("upgrade")))
      [] s.at = "upgrade" ->
           IF r.err /\ HomebrewUpdater_fatal("brew upgrade") THEN Go(Return("err"))
           ELSE Go(Call("brew upgrade --cask", AtStep("upgradeCask")))
      [] s.at = "upgradeCask" ->
           IF r.err /\ HomebrewUpdater_fatal("brew upgrade --cask") THEN Go(Return("err"))
           ELSE Go(Call("brew cleanup", AtStep("cleanup")))
      [] s.at = "cleanup" ->
           IF r.err /\ HomebrewUpdater_fatal("brew cleanup") THEN Go(Return("err"))
           ELSE Go(Return("nil"))

\* the directories of custom/plugins that are git clones
ClonedPlugins(m) ==
    LET cloned(pl) == pl \in m.plugins
    IN  SelectSeq(PluginsList, cloned)

\* OhMyZshUpdater.Update, lines 185-211: the custom themes
OhMyZshUpdater_themes(m) ==
    IF m.p10kDir THEN Go(Call("git pull theme", AtStep("theme")))
    ELSE Go(Return("nil"))

\* OhMyZshUpdater.Update, lines 157-183: the custom plugins from the i-th on
OhMyZshUpdater_plugins(i, m) ==
    IF i <= Len(ClonedPlugins(m))
    THEN Go(Call("git pull plugin", AtItem("plugin", i, {})))
    ELSE OhMyZshUpdater_themes(m)

\* OhMyZshUpdater.Update, one segment, lines 124-214
OhMyZshUpdater_Update(s, r) ==
    CASE s.at = "begin" ->
           IF ~fs.omzDir THEN Go(Return("err"))
           ELSE IF ictx.DryRun
                THEN Out(fs, fsLog, prompts, previews \cup {"git pull ohmyzsh"}, Return("nil"))
                ELSE Go(Call("git pull ohmyzsh", AtStep("pull")))
      [] s.at = "pull" ->
           IF r.err THEN Go(Return("err")) ELSE OhMyZshUpdater_plugins(1, fs)
      [] s.at = "plugin" -> OhMyZshUpdater_plugins(s.i + 1, fs)
      [] s.at = "theme" -> Go(Return("nil"))

-----------------------------------------------------------------------------
(* internal/cli/update.go: runUpdate *)

UpdateFlags ==
    [all : BOOLEAN, homebrew : BOOLEAN, ohmyzsh : BOOLEAN, dryRun : BOOLEAN]

\* lines 145-163
determineUpdaters(f) ==
    IF f.all THEN <<"homebrew", "ohmyzsh">>
    ELSE (IF f.homebrew THEN <<"homebrew">> ELSE <<>>)
         \o (IF f.ohmyzsh THEN <<"ohmyzsh">> ELSE <<>>)

\* checkNotRoot: an error for the effective user 0
checkNotRoot(m) == m.root

\* lines 58-90: refuse root, load the configuration, apply --dry-run, build
\* the context, start the signal goroutine
runUpdate_Load ==
    /\ pc = "load"
    /\ IF checkNotRoot(fs)
       THEN /\ pc' = "done"
            /\ outcome' = "root error"
            /\ UNCHANGED <<cfg, ictx, sig>>
       ELSE LET l == Load(cfgFile, cfgDoc)
            IN  IF l.err
                THEN /\ pc' = "done"
                     /\ outcome' = "config error"
                     /\ UNCHANGED <<cfg, ictx, sig>>
                ELSE LET c == [l.cfg EXCEPT !.Settings.DryRun = @ \/ flags.dryRun]
                     IN  /\ cfg' = c
                         /\ ictx' = NewContext(c, c.Settings.DryRun)
                         /\ sig' = "armed"
                         /\ pc' = "determine"
                         /\ outcome' = outcome
    /\ UNCHANGED <<inputVars, updateVars, gatewayVars, helperVars, installersToRun, idx, errors,
                   status, ret, ctxDone, cancelledIn, installVars, prompts, callVars>>

\* lines 92-98
runUpdate_Determine ==
    /\ pc = "determine"
    /\ updaters' = determineUpdaters(flags)
    /\ IF Len(updaters') = 0
       THEN pc' = "done" /\ outcome' = "nothing selected"
       ELSE pc' = "loop" /\ outcome' = outcome
    /\ UNCHANGED <<inputVars, updates, gatewayVars, helperVars, cfg, ictx, installersToRun, idx,
                   errors, status, ret, signalVars, installVars, prompts, callVars>>

\* lines 114-124: the head of the loop and the call of Update
runUpdate_Loop ==
    /\ pc = "loop"
    /\ IF idx > Len(updaters)
       THEN pc' = "summary" /\ UNCHANGED <<outcome, updates>>
       ELSE IF runInstall_select(ctxDone) = "interrupted"
            THEN pc' = "done" /\ outcome' = "interrupted" /\ updates' = updates
            ELSE /\ pc' = "install"
                 /\ updates' = [updates EXCEPT ![updaters[idx]].calls = @ + 1]
                 /\ outcome' = outcome
    /\ UNCHANGED <<inputVars, updaters, gatewayVars, helperVars, cfg, ictx, installersToRun, idx,
                   errors, status, ret, signalVars, installVars, prompts, callVars>>

\* Update of the updater `name` is on the stack of runUpdate
Updating(name) == pc = "install" /\ updaters[idx] = name

HomebrewUpdater_UpdateStep ==
    /\ Updating("homebrew")
    /\ \E r \in ExecutorResults : Proceed(r, HomebrewUpdater_Update(step, r))

OhMyZshUpdater_UpdateStep ==
    /\ Updating("ohmyzsh")
    /\ \E r \in ExecutorResults : Proceed(r, OhMyZshUpdater_Update(step, r))

\* a loop body that leaves the loop at the first error
runUpdate_next_AbortOnError(e) == IF e = "err" THEN "summary" ELSE "loop"

\* where the loop body leaves the loop: always at its head again
runUpdate_next(e) == "loop"

\* lines 124-129: Update has returned into the loop body
runUpdate_Collect ==
    /\ pc = "installed"
    /\ errors' = IF ret = "err" THEN Append(errors, updaters[idx]) ELSE errors
    /\ updates' = [updates EXCEPT ![updaters[idx]].ret = ret]
    /\ idx' = idx + 1
    /\ ret' = "none"
    /\ pc' = runUpdate_next(ret)
    /\ UNCHANGED <<inputVars, updaters, gatewayVars, helperVars, cfg, ictx, installersToRun,
                   status, outcome, signalVars, installVars, prompts, callVars>>

\* lines 132-142: what runUpdate returns after the loop
runUpdate_result(errs) == IF Len(errs) > 0 THEN "failed" ELSE "success"

runUpdate_Summary ==
    /\ pc = "summary"
    /\ outcome' = runUpdate_result(errors)
    /\ pc' = "done"
    /\ UNCHANGED <<inputVars, updateVars, gatewayVars, helperVars, cfg, ictx, installersToRun, idx,
                   errors, status, ret, signalVars, installVars, prompts, callVars>>

\* a root shell on a provisioned machine
RootMachine == [Provisioned EXCEPT !.root = TRUE]

InitUpdate ==
    /\ flags \in UpdateFlags
    /\ cfgFile \in {"", "present", "missing"}
    /\ cfgDoc \in (IF cfgFile = "present"
                   THEN {FileDoc(MaxList, TRUE, TRUE, FALSE, TRUE),
                         FileDoc(0, FALSE, TRUE, TRUE, FALSE)}
                   ELSE {NoDoc})
    /\ fs \in Machines \cup {RootMachine}
    /\ prevStatus = NoStatus
    /\ runNo = 1
    /\ Started

NextUpdate ==
    \/ runUpdate_Load
    \/ runUpdate_Determine
    \/ runUpdate_Loop
    \/ HomebrewUpdater_UpdateStep
    \/ OhMyZshUpdater_UpdateStep
    \/ runUpdate_Collect
    \/ runUpdate_Summary
    \/ Signal
    \/ SignalHandler

SpecUpdate == InitUpdate /\ [][NextUpdate]_vars

-----------------------------------------------------------------------------
(* Properties of the run loop *)

Selected == Range(installersToRun)

\* the selected installers the loop has finished with
Passed == {installersToRun[i] : i \in 1..(idx - 1)}

\* the selected installers that come after `a`
After(a) == {b \in Selected : Pos(b) > Pos(a)}

LoopRanOut == pc = "done" /\ outcome \in {"success", "failed"}

FailedSet == {n \in NameSet : status[n] = "Failed"}

\* C1 (as the code has it): when A's Install returned an error, every selected
\* B after A that the loop has passed had its install-state check made once, had
\* its Install called exactly when that check said not-installed, and has the
\* terminal state its own check and its own Install gave it (Failed exactly when
\* it is in the error list); the loop stops early only by the interruption, so a
\* run that is not cancelled passes every selected Action.
C1_FailureIsolation ==
    /\ \A a \in Selected : \A b \in After(a) \cap Passed :
          status[a] = "Failed" =>
             /\ isInstalledCalls[b] = 1
             /\ status[b] \in Terminal
             /\ (status[b] = "Skipped") = (installCalls[b] = 0)
             /\ installCalls[b] <= 1
             /\ (status[b] = "Failed") = (b \in Range(errors))
    /\ LoopRanOut => Passed = Selected
    /\ (pc = "done" /\ ~ctxDone /\ outcome \notin {"config error", "nothing selected", "declined"})
          => LoopRanOut

\* a run without cancellation in which an Action failed and a later one succeeded
C1_Witness ==
    /\ pc = "done"
    /\ ~ctxDone
    /\ \E a \in Selected : \E b \in After(a) :
          status[a] = "Failed" /\ status[b] = "Succeeded"

\* C1 (as stated), for A = oh-my-zsh and B = powerlevel10k: B's outcome is the
\* one it would have had if A had succeeded.  Had oh-my-zsh succeeded, ~/.zshrc
\* would exist, and a powerlevel10k whose clone did not fail would not be Failed.
C1_OutcomeAsIfSucceeded ==
    (/\ ~ctxDone
     /\ status["oh-my-zsh"] = "Failed"
     /\ status["powerlevel10k"] \in Terminal
     /\ "git clone powerlevel10k" \notin failedCmds)
        => status["powerlevel10k"] # "Failed"

\* a Skipped Action had no Install call and left no error
C2_SkipInv ==
    \A n \in NameSet :
        status[n] = "Skipped" => installCalls[n] = 0 /\ n \notin Range(errors)

\* the steps RunInstaller and the loop body take for an installed Action
C2_SkipStep ==
    /\ (pc = "check" /\ pc' # "check" /\ IsInstalled(installersToRun[idx], fs))
          => /\ pc' = "returned"
             /\ status'[installersToRun[idx]] = "Skipped"
             /\ installCalls' = installCalls
             /\ fs' = fs
    /\ (pc = "returned" /\ pc' # "returned" /\ status[installersToRun[idx]] = "Skipped")
          => /\ pc' = "loop"
             /\ idx' = idx + 1
             /\ errors' = errors

\* C2: an Action whose IsInstalled is true when RunInstaller checks it is marked
\* Skipped without its Install being called and without an error being recorded,
\* and the loop body goes on to the next position of the selection.
C2_IdempotentSkip == [](C2_SkipInv) /\ [][C2_SkipStep]_vars

\* an installed Action was skipped and the Action after it was then installed
C2_Witness ==
    /\ status["oh-my-zsh"] = "Skipped"
    /\ installCalls["oh-my-zsh"] = 0
    /\ status["powerlevel10k"] = "Succeeded"

\* the components the flags ask for
Chosen(f) ==
    IF f.all THEN NameSet
    ELSE (IF f.homebrew THEN {"homebrew"} ELSE {})
         \cup (IF f.terminal THEN {"oh-my-zsh", "powerlevel10k"} ELSE {})
         \cup (IF f.shell THEN {"shell"} ELSE {})
         \cup (IF f.macos THEN {"macos"} ELSE {})
         \cup (IF f.git THEN {"git"} ELSE {})
         \cup (IF f.ssh THEN {"ssh"} ELSE {})

Determined == pc \notin {"load", "determine"} /\ outcome # "config error"

C4_AggregateOutcome ==
    /\ LoopRanOut =>
          /\ (outcome = "failed") = (FailedSet # {})
          /\ Len(errors) = Cardinality(FailedSet)
          /\ Range(errors) = FailedSet
    /\ \A n \in NameSet : status[n] = "Skipped" => n \notin Range(errors)
    /\ (pc = "done" /\ outcome # "declined" /\ Passed # Selected)
          => outcome = "interrupted"

\* a run that ended with two failures and a skipped Action
C4_Witness ==
    /\ LoopRanOut
    /\ outcome = "failed"
    /\ Len(errors) = 2
    /\ \E n \in Selected : status[n] = "Skipped"

\* C4 (as stated): also when the run was cancelled, it reports success if no
\* Action failed.
C4_SuccessWhenNoneFailed ==
    (pc = "done" /\ installersToRun # <<>> /\ outcome # "declined" /\ FailedSet = {})
        => outcome = "success"

\* what is left when the run was interrupted
C5_Inv ==
    /\ \A n \in Selected \ Passed :
          status[n] = "Pending" => isInstalledCalls[n] = 0 /\ installCalls[n] = 0
    /\ outcome = "interrupted" =>
          /\ \A n \in Passed : status[n] \in Terminal
          /\ \A n \in Selected \ Passed :
                status[n] = "Pending" /\ isInstalledCalls[n] = 0 /\ installCalls[n] = 0

\* the step the loop takes at its check once the context is cancelled
C5_Step ==
    (pc = "loop" /\ ctxDone /\ idx <= Len(installersToRun) /\ pc' # pc)
        => /\ pc' = "done"
           /\ outcome' = "interrupted"
           /\ UNCHANGED <<fs, fsLog, status, isInstalledCalls, installCalls, spawned>>

-----------------------------------------------------------------------------
(* Properties of dry-run and of cancellation *)

\* C6 (as stated): with dry-run enabled no external process is spawned, no file
\* or directory is created or modified, and every call of the gateway returns
\* a Result with DryRun set and exit code 0.
C6_DryRunNoEffect ==
    ictx.DryRun =>
        /\ spawned = {}
        /\ fsLog = {}
        /\ \A r \in ExecutorResults : exec.st # "idle" => r.DryRun /\ r.ExitCode = 0

\* killing, refusing and interrupting happen only under a cancelled context
C7_Inv ==
    /\ procKilled => ctxDone
    /\ exec.st = "refused" => ctxDone
    /\ outcome = "interrupted" => ctxDone

\* where the interruption is taken, and what a cancelled context forbids
C7_Step ==
    /\ (outcome' = "interrupted" /\ outcome # "interrupted") => pc = "loop"
    /\ pc = "install" => pc' \in {"install", "installed"}
    /\ ctxDone => spawned' = spawned
    /\ (ctxDone /\ exec'.st = "running") => exec' = exec

\* C7 (as the code has it): the loop observes the cancellation only at its
\* check, and an Install that is running goes on to its own return; but the
\* context is handed to exec.CommandContext, so the external process that is
\* running when the context is cancelled may be killed, a call made after that
\* is refused without a process being spawned, and no process is killed or
\* refused while the context is live.
C7_CancelReachesTheProcess == [](C7_Inv) /\ [][C7_Step]_vars

\* the signal came while an external process was running, the process was
\* killed, the Action ran to its return and the loop then stopped at its check
C7_Witness ==
    /\ procKilled
    /\ outcome = "interrupted"
    /\ cancelledIn = "action"

\* C7 (as stated): the external call that is running when the signal is raised
\* is allowed to finish; the cancellation neither kills it nor aborts a call.
C7_ProcessNeverKilled == ~procKilled /\ exec.st # "refused"

\* C8 (as stated): when cancel() is called while a selected Action is executing,
\* the last one included, runInstall returns the "interrupted" error and never
\* reports success.
C8_AlwaysInterrupted ==
    (pc = "done" /\ cancelledIn = "action") => outcome = "interrupted"

-----------------------------------------------------------------------------
(* Properties of repeated runs and of the convergence Actions *)

Convergence == {"shell", "macos", "git"}

\* the component is switched on in the loaded configuration
Enabled(n) ==
    CASE n = "homebrew" -> cfg.Homebrew.Install
      [] n = "oh-my-zsh" -> cfg.Terminal.OhMyZsh.Install
      [] n = "powerlevel10k" -> cfg.Terminal.Powerlevel10k.Install
      [] n = "macos" -> cfg.MacOS.Configure
      [] n = "git" -> cfg.Git.Configure
      [] n = "ssh" -> cfg.SSH.GenerateKey
      [] OTHER -> TRUE

\* C9 (as the code has it): on a later run of "all" with the same configuration
\* and dry-run off, oh-my-zsh, powerlevel10k and ssh are skipped when the run
\* before left them installed (it skipped them, or they are enabled and their
\* Install succeeded), and homebrew likewise when brew is on the shell's PATH;
\* shell, macos and git report not-installed again, so their Install is invoked
\* on every run that reaches them.
C9_SecondRun ==
    (runNo > 1 /\ cfg.loaded) =>
        /\ \A n \in (Passed \ Convergence) :
              (/\ \/ prevStatus[n] = "Skipped"
                  \/ prevStatus[n] = "Succeeded" /\ Enabled(n)
               /\ n = "homebrew" => fs.shellPathBrew)
                 => status[n] = "Skipped" /\ installCalls[n] = 0
        /\ \A n \in (Passed \cap Convergence) :
              installCalls[n] = 1 /\ status[n] # "Skipped"

\* a second run that skipped what the first installed and configured git again
C9_Witness ==
    /\ runNo = 2
    /\ pc = "done"
    /\ prevStatus["ssh"] = "Succeeded"
    /\ prevStatus["oh-my-zsh"] = "Succeeded"
    /\ status["ssh"] = "Skipped"
    /\ status["oh-my-zsh"] = "Skipped"
    /\ prevStatus["git"] = "Succeeded"
    /\ installCalls["git"] = 1

\* C9 (as stated): on the second run every selected Action is skipped and no
\* Install is invoked.
C9_NothingInstalledTwice ==
    runNo > 1 => \A n \in NameSet : installCalls[n] = 0

\* C10: shell, macos and git report not-installed in every machine state, so
\* none of them is ever Skipped and each one the loop has passed had its
\* Install called.
C10_ConvergenceNeverSkipped ==
    \A n \in Convergence :
        /\ ~IsInstalled(n, fs)
        /\ status[n] # "Skipped"
        /\ n \in Passed => installCalls[n] = 1 /\ status[n] \in {"Succeeded", "Failed"}

\* shell was installed again on a machine whose ~/.zshrc already existed
C10_Witness ==
    /\ pc = "done"
    /\ ~ictx.DryRun
    /\ fs.backup
    /\ installCalls["shell"] = 1
    /\ installCalls["macos"] = 1
    /\ installCalls["git"] = 1
    /\ status["shell"] = "Succeeded"

-----------------------------------------------------------------------------
(* Properties of the dry-run flag, the confirmation and the gateway *)

\* settings.dry_run as the defaults and the custom file, if any, give it
FileDryRun ==
    MergeInConfig(DefaultDoc, IF cfgFile = "present" THEN cfgDoc ELSE NoDoc)
        [<<"settings", "dry_run">>]

\* the one dry-run flag of the run, and nothing constructed before it is decided
C12_Inv ==
    /\ pc = "load" =>
          /\ ictx = NoContext
          /\ \A n \in NameSet : isInstalledCalls[n] = 0 /\ installCalls[n] = 0
    /\ cfg.loaded =>
          /\ cfg.Settings.DryRun = (FileDryRun \/ flags.dryRun)
          /\ ictx.DryRun = cfg.Settings.DryRun
          /\ ictx.Executor.DryRun = ictx.DryRun
    /\ exec.st # "idle" => (exec.st = "dry") = ictx.DryRun

\* once decided, the flag and the context stay as they are
C12_Step == pc # "load" => ictx' = ictx /\ cfg' = cfg

\* C12: the effective dry-run flag is settings.dry_run of the configuration or
\* the --dry-run flag; it is fixed when the context is built, before any
\* Action is checked or installed; from then on Context.DryRun and
\* Executor.DryRun are equal to it and do not change, and every call of the
\* gateway made by an Action is short-circuited exactly when it is set.
C12_DryRunDecidedOnce == [](C12_Inv) /\ [][C12_Step]_vars

\* dry-run set by the configuration file alone, and an Action previewed under it
C12_Witness ==
    /\ pc = "done"
    /\ ~flags.dryRun
    /\ ictx.DryRun
    /\ ictx.Executor.DryRun
    /\ status["homebrew"] = "Succeeded"
    /\ "brew tap" \in previews

Confirmation == "Proceed with installation?"

Setup == {"load", "determine", "confirm"}

NothingRun ==
    /\ \A n \in NameSet :
          isInstalledCalls[n] = 0 /\ installCalls[n] = 0 /\ status[n] = "Pending"
    /\ spawned = {}
    /\ fsLog = {}

\* who is asked, and what a declined run leaves
C13_Inv ==
    /\ pc \in Setup => NothingRun
    /\ (pc \notin Setup /\ outcome \notin {"config error", "nothing selected"}) =>
          (Confirmation \in prompts) = (cfg.Settings.Interactive /\ ~ictx.DryRun)
    /\ pc \in {"load", "determine"} => Confirmation \notin prompts
    /\ outcome = "declined" =>
          /\ pc = "done"
          /\ ~ReturnsError(outcome)
          /\ Confirmation \in prompts
          /\ NothingRun

\* the question is put by the one step that leaves the confirmation, and the
\* run does not come back to it
C13_Step ==
    /\ (Confirmation \in prompts' /\ Confirmation \notin prompts) =>
          pc = "confirm" /\ pc' \in {"loop", "done"}
    /\ pc \notin Setup => pc' \notin Setup
    /\ (pc = "confirm" /\ pc' = "done") => outcome' = "declined"

\* C13: an interactive run that is not a dry-run asks for one confirmation,
\* after the selection and before any install-state check or Install; declined,
\* it ends without an error and without any Action checked or installed; a
\* dry-run or a non-interactive run asks for none.
C13_BatchConfirmation == [](C13_Inv) /\ [][C13_Step]_vars

\* a run of all seven Actions that was declined
C13_Witness ==
    /\ outcome = "declined"
    /\ Len(installersToRun) = 7
    /\ prompts = {Confirmation}

-----------------------------------------------------------------------------
(* Properties of the update command *)

\* the updater `u` is selected by the flags
UpdaterSelected(u) ==
    \/ flags.all
    \/ u = "homebrew" /\ flags.homebrew
    \/ u = "ohmyzsh" /\ flags.ohmyzsh

\* runUpdate has got as far as determineUpdaters
UpdatersDetermined == pc \notin {"load", "determine"} /\ outcome \notin {"root error", "config error"}

\* the loop has reached the updater `u`
UpdaterReached(u) ==
    \E i \in 1..Len(updaters) :
        /\ updaters[i] = u
        /\ i < idx \/ (i = idx /\ pc \in {"install", "installed"})

C14_Inv ==
    /\ UpdatersDetermined => updaters = SelectSeq(Updaters, UpdaterSelected)
    /\ \A u \in UpdaterSet :
          updates[u].calls = (IF UpdatersDetermined /\ UpdaterReached(u) THEN 1 ELSE 0)
    /\ (UpdatersDetermined /\ pc = "done" /\ ~ctxDone) =>
          /\ \A u \in UpdaterSet :
                UpdaterSelected(u) => updates[u].calls = 1 /\ updates[u].ret # "none"
          /\ outcome \in {"nothing selected", "success", "failed"}
          /\ (outcome = "failed") = (\E u \in UpdaterSet : updates[u].ret = "err")
          /\ (outcome = "nothing selected") = (updaters = <<>>)

\* C14: absent cancellation, the updaters are homebrew, ohmyzsh filtered to
\* the selection, Update of each selected updater is called exactly once
\* whatever the machine already has, an updater's error does not stop a later
\* updater, and the run reports failure exactly when some Update returned an
\* error.
C14_UpdateLoop == [](C14_Inv)

C14_Witness ==
    /\ pc = "done" /\ ~ctxDone
    /\ updates["homebrew"].ret = "err"
    /\ updates["ohmyzsh"].calls = 1 /\ updates["ohmyzsh"].ret = "nil"
    /\ outcome = "failed"

\* the gateway was asked to run `cmd` in this run
Attempted(cmd) == cmd \in spawned \cup failedCmds

BrewSteps == {"brew update", "brew upgrade", "brew upgrade --cask", "brew cleanup"}

C15_Inv ==
    LET u == updates["homebrew"]
        fatal == {"brew update", "brew upgrade"} \cap failedCmds # {}
    IN  /\ u.ret # "none" => ((u.ret = "err") = (~Exists(fs, "brew") \/ fatal))
        /\ "brew update" \in failedCmds => ~Attempted("brew upgrade")
        /\ u.ret = "err" => ~Attempted("brew upgrade --cask") /\ ~Attempted("brew cleanup")
        /\ (u.ret = "nil" /\ ~ictx.DryRun) =>
              /\ {"brew update", "brew upgrade"} \subseteq spawned
              /\ Attempted("brew upgrade --cask") /\ Attempted("brew cleanup")
        /\ (u.ret = "nil" /\ ictx.DryRun) =>
              BrewSteps \subseteq previews /\ BrewSteps \cap spawned = {}

C15_Step ==
    (exec'.cmd \in BrewSteps /\ exec'.cmd # exec.cmd) =>
        CASE exec'.cmd = "brew update" -> exec = IdleExec
          [] exec'.cmd = "brew upgrade" ->
               exec.cmd = "brew update" /\ "brew update" \notin failedCmds'
          [] exec'.cmd = "brew upgrade --cask" ->
               exec.cmd = "brew upgrade" /\ "brew upgrade" \notin failedCmds'
          [] exec'.cmd = "brew cleanup" -> exec.cmd = "brew upgrade --cask"

\* C15: the Homebrew update asks for brew update, brew upgrade, brew upgrade
\* --cask and brew cleanup in this order; an error of brew update or of brew
\* upgrade makes Update return an error with no later sub-step asked for; an
\* error of brew upgrade --cask or of brew cleanup is a warning, the next
\* sub-step is still asked for and Update returns nil.
C15_HomebrewSubSteps == [](C15_Inv) /\ [][C15_Step]_vars

C15_Witness ==
    /\ "brew upgrade --cask" \in failedCmds
    /\ "brew cleanup" \in spawned
    /\ updates["homebrew"].ret = "nil"

-----------------------------------------------------------------------------
(* Properties of the gateway *)

C16_Inv ==
    /\ ictx.Executor.DryRun =>
          /\ spawned = {}
          /\ result.kind = "Run" =>
                /\ ~result.ret.err /\ ~result.ret.nil /\ ~result.ret.spawns
                /\ result.ret.res = Result(0, "", "", TRUE)
          /\ result.kind = "RunInteractive" =>
                ~result.ret.err /\ result.ret.nil /\ ~result.ret.spawns
    /\ result.kind = "Exists" => result.found = Exists(fs, result.cmd)

\* C16: with DryRun set, Run returns no error and a Result with DryRun true,
\* ExitCode 0 and empty Stdout and Stderr, RunInteractive returns nil, and no
\* process is spawned, whatever the command; Exists answers by the PATH alone.
C16_DryRunShortCircuit == [](C16_Inv)

C16_Witness ==
    /\ ictx.Executor.DryRun
    /\ result.kind = "Run"
    /\ result.cmd = "sh -c exit 1"
    /\ result.proc.exit = 1

\* the process of the last direct call was started
ProcessStarted == result.proc.starts /\ ~ctxDone

C17_Inv ==
    (~ictx.Executor.DryRun /\ result.kind = "Run") =>
        /\ ~result.ret.nil
        /\ ~result.ret.res.DryRun
        /\ result.ret.err = (~ProcessStarted \/ result.proc.exit # 0)
        /\ result.ret.res.ExitCode = (IF ProcessStarted THEN result.proc.exit ELSE -1)
        /\ ProcessStarted =>
              /\ result.ret.res.Stdout = result.proc.Stdout
              /\ result.ret.res.Stderr = result.proc.Stderr

\* C17: with DryRun off, Run returns a Result that is not nil and has DryRun
\* false; it returns an error exactly when the process did not start or exited
\* non-zero; ExitCode is 0 on success, the exit code of the process on a
\* non-zero exit, -1 when the process did not start; what the process wrote to
\* its streams is in the Result also when an error is returned.
C17_FailureReporting == [](C17_Inv)

C17_Witness ==
    /\ ~ictx.Executor.DryRun
    /\ result.kind = "Run"
    /\ result.ret.err
    /\ result.ret.res.ExitCode = 2
    /\ result.ret.res.Stderr # ""

-----------------------------------------------------------------------------
(* Properties of the sequence of installers *)

\* the installers of the list before position i that failed
FailedBefore(i) ==
    LET failed(n) == status[n] = "Failed"
    IN  SelectSeq(SubSeq(installersToRun, 1, i - 1), failed)

C18_Inv ==
    /\ Cardinality({n \in NameSet : status[n] = "Running"}) <= 1
    /\ \A n \in NameSet : isInstalledCalls[n] <= 1 /\ installCalls[n] <= 1
    /\ \A n \in NameSet : installCalls[n] <= isInstalledCalls[n]
    /\ \A i \in 1..Len(installersToRun) : \A j \in 1..Len(installersToRun) :
          (i < j /\ (isInstalledCalls[installersToRun[j]] > 0
                      \/ status[installersToRun[j]] \notin {"None", "Pending"}))
             => status[installersToRun[i]] \in Terminal
    /\ errors = FailedBefore(idx)

C18_Step ==
    \A n \in NameSet :
        /\ status[n] \in Terminal => status'[n] = status[n]
        /\ status'[n] # status[n] =>
              \/ status[n] = "None" /\ status'[n] = "Pending"
              \/ status[n] = "Pending" /\ status'[n] = "Running"
              \/ status[n] = "Running" /\ status'[n] \in Terminal

\* C18: in a run the install-state check of an installer starts only when
\* every installer before it in the list is Skipped, Succeeded or Failed; at
\* most one installer is Running; a terminal state is never left; IsInstalled
\* and Install of an installer are called at most once; the failures are
\* collected in the order of the list.
C18_SequentialOneShot == [](C18_Inv) /\ [][C18_Step]_vars

C18_Witness ==
    /\ Len(installersToRun) >= 3
    /\ status[installersToRun[1]] = "Failed"
    /\ status[installersToRun[2]] = "Skipped"
    /\ status[installersToRun[3]] = "Running"
    /\ installCalls[installersToRun[3]] = 1

-----------------------------------------------------------------------------
(* Properties of the configuration *)

\* the value of the entry `name` of a map field, "" when the map has none
MapValue(entries, name) ==
    IF \E i \in 1..Len(entries) : entries[i][1] = name
    THEN entries[CHOOSE i \in 1..Len(entries) : entries[i][1] = name][2]
    ELSE ""

\* the field of the Config struct that the leaf key k of the document names
Field(c, k) ==
    CASE k = <<"version">> -> c.Version
      [] k = <<"settings", "dry_run">> -> c.Settings.DryRun
      [] k = <<"settings", "interactive">> -> c.Settings.Interactive
      [] k = <<"settings", "backup_dotfiles">> -> c.Settings.BackupDotfiles
      [] k = <<"homebrew", "install">> -> c.Homebrew.Install
      [] k = <<"homebrew", "taps">> -> c.Homebrew.Taps
      [] k = <<"homebrew", "formulae">> -> c.Homebrew.Formulae
      [] k = <<"homebrew", "casks">> -> c.Homebrew.Casks
      [] k = <<"terminal", "oh_my_zsh", "install">> -> c.Terminal.OhMyZsh.Install
      [] k = <<"terminal", "oh_my_zsh", "plugins">> -> c.Terminal.OhMyZsh.Plugins
      [] k = <<"terminal", "powerlevel10k", "install">> -> c.Terminal.Powerlevel10k.Install
      [] k = <<"terminal", "powerlevel10k", "style">> -> c.Terminal.Powerlevel10k.Style
      [] k = <<"shell", "zshrc_extras">> -> c.Shell.ZshrcExtras
      [] k = <<"macos", "configure">> -> c.MacOS.Configure
      [] k = <<"macos", "defaults", "finder", "default_view_style">> ->
           c.MacOS.Defaults.Finder.DefaultViewStyle
      [] k = <<"git", "configure">> -> c.Git.Configure
      [] k = <<"git", "user", "name">> -> c.Git.User.Name
      [] k = <<"git", "user", "email">> -> c.Git.User.Email
      [] k = <<"ssh", "generate_key">> -> c.SSH.GenerateKey
      [] k = <<"ssh", "comment">> -> c.SSH.Comment
      [] Len(k) = 3 /\ SubSeq(k, 1, 2) = <<"shell", "aliases">> ->
           MapValue(c.Shell.Aliases, k[3])
      [] Len(k) = 3 /\ SubSeq(k, 1, 2) = <<"shell", "environment">> ->
           MapValue(c.Shell.Environment, k[3])
      [] Len(k) = 3 /\ SubSeq(k, 1, 2) = <<"git", "aliases">> ->
           MapValue(c.Git.Aliases, k[3])
      [] Len(k) = 3 /\ SubSeq(k, 1, 2) = <<"git", "settings">> ->
           MapValue(c.Git.Settings, k[3])

\* the document of the file named by --config, empty without the option
GivenDoc == IF cfgFile = "present" THEN cfgDoc ELSE NoDoc

\* nothing of a run beyond the load has happened
NothingConstructed ==
    /\ ~cfg.loaded
    /\ ictx = NoContext
    /\ installersToRun = <<>>
    /\ \A n \in NameSet :
          status[n] = "Pending" /\ isInstalledCalls[n] = 0 /\ installCalls[n] = 0
    /\ spawned = {} /\ previews = {} /\ fsLog = {} /\ prompts = {}

C19_Inv ==
    /\ cfgFile = "missing" =>
          /\ pc \in {"load", "done"}
          /\ pc = "done" => outcome = "config error"
          /\ NothingConstructed
    /\ cfg.loaded =>
          /\ cfgFile # "missing"
          /\ \A k \in DOMAIN DefaultDoc \cup DOMAIN GivenDoc :
                Field(cfg, k) =
                    (IF k = <<"settings", "dry_run">> /\ flags.dryRun THEN TRUE
                     ELSE IF k \in DOMAIN GivenDoc THEN GivenDoc[k]
                     ELSE DefaultDoc[k])
          /\ (cfgFile = "" /\ ~flags.dryRun) => cfg = DefaultConfig

\* C19: a --config path that names no file makes Load fail, and the run ends
\* with the configuration error before a context, an installer list or any
\* call exists; a file that exists yields for every key the file's value when
\* the file sets the key (its list instead of the default list) and the
\* default otherwise; no --config yields the defaults.
C19_ConfigurationLoad == [](C19_Inv)

C19_Witness ==
    /\ cfgFile = "present"
    /\ cfg.loaded
    /\ <<"homebrew", "formulae">> \in DOMAIN cfgDoc
    /\ cfg.Homebrew.Formulae = cfgDoc[<<"homebrew", "formulae">>]
    /\ cfg.Homebrew.Formulae # DefaultDoc[<<"homebrew", "formulae">>]
    /\ <<"git", "configure">> \notin DOMAIN cfgDoc
    /\ cfg.Git.Configure
    /\ MapValue(cfg.Shell.Aliases, KeyList[1]) = "custom"

-----------------------------------------------------------------------------
(* Properties of the dotfile backup *)

\* ~/.zshrc was there when the run began, and every write to it so far is an
\* edit by Oh-My-Zsh or by Powerlevel10k: neither the install script nor the
\* shell installer, which can create the file, has run.
OnlyEditsOfExistingZshrc ==
    /\ fs.zshrc
    /\ "ohmyzsh install.sh" \notin spawned
    /\ installCalls["shell"] = 0

\* C20: in a run that is not a dry-run, with settings.backup_dotfiles set and a
\* ~/.zshrc that exists, a write to ~/.zshrc by an installer of the run is
\* preceded by a backup copy of the file made in that run.
C20_BackupPrecedesEdit ==
    (cfg.loaded /\ cfg.Settings.BackupDotfiles /\ ~ictx.DryRun
        /\ OnlyEditsOfExistingZshrc /\ ".zshrc" \in fsLog)
      => ".zshrc.backup" \in fsLog

-----------------------------------------------------------------------------
(* Properties of the Homebrew installer *)

\* the run is through with the homebrew installer on a machine that had brew
\* on the PATH from the start, with homebrew.install set and dry-run off
HomebrewDoneWithBrewPresent ==
    /\ cfg.loaded /\ cfg.Homebrew.Install /\ ~ictx.DryRun
    /\ status["homebrew"] \in Terminal
    /\ Exists(fs, "brew")
    /\ ~Attempted("homebrew install.sh")
    /\ ~ctxDone

\* C21: with brew already on the PATH, homebrew.install set and dry-run off,
\* the homebrew installer run by install still adds every configured tap and
\* asks brew to install every configured formula and cask that is missing.
C21_PackagesWithBrewPresent ==
    HomebrewDoneWithBrewPresent =>
        /\ Len(cfg.Homebrew.Taps) > 0 => Attempted("brew tap")
        /\ (\E i \in 1..Len(cfg.Homebrew.Formulae) :
               ~isFormulaInstalled(cfg.Homebrew.Formulae[i], fs.formulae))
             => Attempted("brew install")
        /\ (\E i \in 1..Len(cfg.Homebrew.Casks) :
               cfg.Homebrew.Casks[i] \notin fs.casks
               /\ ~isCaskAppInstalled(cfg.Homebrew.Casks[i], fs.apps))
             => Attempted("brew install --cask")

-----------------------------------------------------------------------------
(* Properties of the developer-tools wait loop *)

C22_Inv ==
    /\ pc = "done" => ret \in {"nil", "cancelled", "timeout"}
    /\ ret = "nil" => fs.xcodeSelect /\ fs.clt = "ok"
    /\ ret = "cancelled" => ctxDone
    /\ ret = "timeout" => timers.timeout /\ timers.elapsed = MaxTicks

C22_Step ==
    /\ (ret' = "nil" /\ ret # "nil") =>
          timers.tick /\ ~timers'.tick /\ XcodeInstaller_IsInstalled(ictx, ctxDone, fs)
    /\ pc = "done" => pc' = "done" /\ ret' = ret

\* C22: waitForInstallation ends in one of three ways: nil after a tick's poll
\* found the tools installed, the context's error after the context was
\* cancelled, the timeout error after the timer fired; it returns nil only
\* from such a poll, and with time passing it returns.
C22_WaitLoop == [](C22_Inv) /\ [][C22_Step]_vars /\ <>(pc = "done")

C22_Witness ==
    /\ pc = "done"
    /\ ret = "timeout"
    /\ ~ctxDone
    /\ fs.clt # "ok"

-----------------------------------------------------------------------------
(* Properties of the preview text *)

\* the argument holds a whitespace character or a quote character
NeedsQuotes(arg) ==
    \E ch \in {" ", "\t", "\n", "'", "\""} : Contains(arg, ch)

\* C23: formatCommand wraps in quotes every argument that holds a whitespace
\* character or a single or double quote, leaves every other argument as it
\* is, and joins the name and the arguments with single spaces.
C23_PreviewQuoting ==
    applied.fn = "formatCommand" =>
        LET name == applied.in[1]
            args == applied.in[2]
            shown == [i \in 1..Len(args) |->
                         IF NeedsQuotes(args[i]) THEN Quoted(args[i]) ELSE args[i]]
        IN  applied.out = Join(<<name>> \o shown)

-----------------------------------------------------------------------------
(* Properties of the managed blocks of ~/.zshrc *)

\* C24: updateZshrcBlock replaces the block from the start marker to the end
\* marker when the start marker comes before the end marker, and appends the
\* block otherwise; what is outside the replaced block stays as it was, in
\* its order; a missing file is created with the block alone.
C24_ReplaceOrAppend ==
    applied.fn = "updateZshrcBlock" =>
        LET existed == applied.in[1]
            old == applied.in[2]
            i == Index(old, StartMarker(applied.in[3]))
            j == Index(old, EndMarker(applied.in[3]))
            b == applied.in[4]
            new == applied.out
        IN  IF ~existed THEN new = b \o <<NL>>
            ELSE IF i # 0 /\ j # 0 /\ i < j
                 THEN /\ Len(new) = Len(old) - (j - i + 1) + Len(b)
                      /\ SubSeq(new, 1, i - 1) = SubSeq(old, 1, i - 1)
                      /\ SubSeq(new, i, i + Len(b) - 1) = b
                      /\ SubSeq(new, i + Len(b), Len(new)) = SubSeq(old, j + 1, Len(old))
                 ELSE /\ Len(new) >= Len(old) + Len(b)
                      /\ SubSeq(new, 1, Len(old)) = old
                      /\ SubSeq(new, Len(new) - Len(b), Len(new)) = b \o <<NL>>
                      /\ \A k \in (Len(old) + 1)..(Len(new) - Len(b) - 1) : new[k] = NL

C24_Witness ==
    /\ applied.fn = "updateZshrcBlock"
    /\ applied.in[1]
    /\ Index(applied.in[2], StartMarker(applied.in[3])) > 1
    /\ Index(applied.in[2], EndMarker(applied.in[3])) > Index(applied.in[2], StartMarker(applied.in[3]))
    /\ Index(applied.in[2], EndMarker(applied.in[3])) < Len(applied.in[2]) - 1
    /\ <<"alias", "old", "old">> \in Range(applied.in[2])
    /\ <<"alias", "old", "old">> \notin Range(applied.out)
    /\ <<"line", "u2">> \in Range(applied.out)

\* the blocks of a marker pair in the text: a start marker followed by an end
\* marker with no start marker in between
BlocksOf(content, kind) ==
    {i \in 1..Len(content) :
        /\ content[i] = StartMarker(kind)
        /\ \E j \in (i + 1)..Len(content) :
              /\ content[j] = EndMarker(kind)
              /\ \A k \in (i + 1)..(j - 1) : content[k] # StartMarker(kind)}

C25_Inv ==
    pc = "ran" =>
        \A k \in 1..Len(ShellStages) :
            ShellInstaller_configures(ShellStages[k], cfg) =>
                Cardinality(BlocksOf(zshrcText, ShellStages[k])) = 1

C25_Step == (pc = "shell" /\ runNo >= 2) => zshrcText' = zshrcText

\* C25: whatever ~/.zshrc held before, after any number of runs of the shell
\* installer with one configuration the file holds exactly one block for each
\* configured marker pair, and a run after the first leaves the file as the
\* first run left it.
C25_OneBlockPerPair == [](C25_Inv) /\ [][C25_Step]_vars

-----------------------------------------------------------------------------
(* Properties of the SSH installer *)

SSHCommands == {"ssh-keygen", "ssh-agent", "ssh-add"}

C26_Inv ==
    /\ (exec.cmd = "ssh-keygen" \/ Attempted("ssh-keygen")) =>
          /\ cfg.SSH.GenerateKey /\ ~ictx.DryRun
          /\ isInstalledCalls["ssh"] = 1 /\ status["ssh"] # "Skipped"
    /\ (Installing("ssh") /\ step.at = "begin" /\ fs.keyFile) => FALSE
    /\ status["ssh"] = "Skipped" =>
          /\ fs.keyFile
          /\ SSHCommands \cap (spawned \cup failedCmds \cup previews) = {}

C26_Step ==
    /\ (exec'.cmd = "ssh-keygen" /\ exec.cmd # "ssh-keygen") =>
          ~fs.keyFile /\ SSHInstaller_generates(cfg) /\ ~ictx.DryRun
    /\ (fs.keyFile /\ exec.cmd # "ssh-keygen") =>
          /\ fs'.keyFile
          /\ "ssh-keygen" \in spawned' => "ssh-keygen" \in spawned

\* C26: ssh-keygen is run only with ssh.generate_key set, dry-run off and the
\* key file missing when it was looked for; with the key file there the SSH
\* installer starts no process and the key file stays.
C26_KeyNeverRegenerated == [](C26_Inv) /\ [][C26_Step]_vars

C26_Witness ==
    /\ pc = "done"
    /\ status["ssh"] = "Skipped"
    /\ cfg.SSH.GenerateKey /\ ~ictx.DryRun
    /\ fs.keyFile
    /\ installCalls["ssh"] = 0
    /\ spawned # {}

-----------------------------------------------------------------------------
(* Properties of a component switched off *)

\* the configuration switches the installer off
Disabled(n) ==
    /\ cfg.loaded
    /\ CASE n = "homebrew" -> ~cfg.Homebrew.Install
         [] n = "oh-my-zsh" -> ~cfg.Terminal.OhMyZsh.Install
         [] n = "powerlevel10k" -> ~cfg.Terminal.Powerlevel10k.Install
         [] n = "macos" -> ~cfg.MacOS.Configure
         [] n = "git" -> ~cfg.Git.Configure
         [] n = "ssh" -> ~cfg.SSH.GenerateKey
         [] OTHER -> FALSE

C27_Inv ==
    \A n \in NameSet :
        (Disabled(n) /\ installCalls[n] = 1) =>
            /\ status[n] \in {"Running", "Succeeded"}
            /\ Installing(n) => exec = IdleExec /\ step = AtStep("begin")
            /\ n \notin Range(errors)

C27_Step ==
    \A n \in NameSet :
        (Disabled(n) /\ Installing(n)) =>
            /\ spawned' = spawned /\ previews' = previews /\ prompts' = prompts
            /\ fs' = fs /\ fsLog' = fsLog
            /\ failedCmds' = failedCmds
            /\ pc' # pc => pc' = "installed" /\ ret' = "nil"

\* C27: Install of homebrew, oh-my-zsh, powerlevel10k, macos, git or ssh,
\* switched off in the configuration, starts no process, changes no file and
\* returns nil, and the installer is reported as succeeded.
C27_DisabledHasNoEffect == [](C27_Inv) /\ [][C27_Step]_vars

C27_Witness ==
    /\ pc = "done"
    /\ \A n \in {"homebrew", "oh-my-zsh", "powerlevel10k", "macos", "git", "ssh"} :
          Disabled(n) /\ installCalls[n] = 1 /\ status[n] = "Succeeded"
    /\ outcome = "success"

-----------------------------------------------------------------------------
(* Properties of the prompts in a dry-run *)

\* C28: in a dry-run install run no interactive prompt (confirmation, text
\* input or selection) is issued, by runInstall or by any installer, for every
\* selection, configuration and machine.
C28_DryRunNeverPrompts == ictx.DryRun => prompts = {}

-----------------------------------------------------------------------------
(* Properties of the Homebrew packages *)

\* every configured tap, formula and cask is there or its command has failed
PackagesAttempted ==
    /\ \A i \in 1..Len(cfg.Homebrew.Taps) :
          cfg.Homebrew.Taps[i] \in fs.taps \/ "brew tap" \in failedCmds
    /\ \A i \in 1..Len(cfg.Homebrew.Formulae) :
          \/ isFormulaInstalled(cfg.Homebrew.Formulae[i], fs.formulae)
          \/ "brew install" \in failedCmds
    /\ \A i \in 1..Len(cfg.Homebrew.Casks) :
          \/ cfg.Homebrew.Casks[i] \in fs.casks
          \/ isCaskAppInstalled(cfg.Homebrew.Casks[i], fs.apps)
          \/ "brew install --cask" \in failedCmds

C29_Inv ==
    /\ status["homebrew"] = "Failed" => "homebrew install.sh" \in failedCmds
    /\ (status["homebrew"] = "Succeeded" /\ cfg.Homebrew.Install /\ ~ictx.DryRun) =>
          PackagesAttempted

C29_Step ==
    Installing("homebrew") =>
        /\ (pc' = "installed" /\ ret' = "err") =>
              step.at = "installHomebrew" /\ "homebrew install.sh" \in failedCmds'
        /\ (step.at \in {"addTap", "installFormula", "installCask"}
              /\ exec.cmd \in failedCmds' /\ pc' = "installed") => ret' = "nil"

\* C29: HomebrewInstaller.Install returns an error only when installing
\* Homebrew itself fails; after a tap, a formula or a cask has failed the
\* remaining items are still attempted and Install returns nil, so the
\* installer is reported as succeeded even if every package has failed.
C29_PackageFailuresTolerated == [](C29_Inv) /\ [][C29_Step]_vars

C29_Witness ==
    /\ status["homebrew"] = "Succeeded"
    /\ Len(cfg.Homebrew.Taps) > 0 /\ Len(cfg.Homebrew.Formulae) > 0
    /\ Len(cfg.Homebrew.Casks) > 0
    /\ {"brew tap", "brew install", "brew install --cask"} \subseteq failedCmds
    /\ fs.taps = {} /\ fs.formulae = {} /\ fs.casks = {}

-----------------------------------------------------------------------------
(* Properties of the version comparison *)

\* the number a component of decimal digits stands for
RECURSIVE Number(_)
Number(part) ==
    IF part = << >> THEN 0
    ELSE 10 * Number(SubSeq(part, 1, Len(part) - 1)) + (Byte(part[Len(part)]) - 48)

\* latest is the higher version, component by component as numbers
RECURSIVE Higher(_, _)
Higher(latestParts, currentParts) ==
    IF latestParts = << >> \/ currentParts = << >> THEN FALSE
    ELSE IF Number(Head(latestParts)) # Number(Head(currentParts))
         THEN Number(Head(latestParts)) > Number(Head(currentParts))
         ELSE Higher(Tail(latestParts), Tail(currentParts))

\* C30: for a current version that is empty, dev or dirty isNewerVersion is
\* false for every latest; for release versions (here with the same number of
\* components) it is true exactly when latest is the higher version, each
\* component compared as a number.
C30_VersionComparison ==
    applied.fn = "isNewerVersion" =>
        LET latest == applied.in[1]
            current == applied.in[2]
        IN  IF current \in DevVersions THEN applied.out = FALSE
            ELSE Len(Split(latest)) = Len(Split(current)) =>
                    applied.out = Higher(Split(latest), Split(current))
====
